---- MODULE Spec2Model ----
(***************************************************************************)
(* dRAID (distributed RAID) core of OpenZFS: the permutation engine, the   *)
(* geometry helpers and the stripe builder of vdev_draid.c.                *)
(*                                                                         *)
(* The specifications of the module:                                       *)
(*   SpecMap  the permutation engine (lookup, generate, check_map)         *)
(*   SpecGeo  the block sizing helpers (asize, asize_to_psize, ...)        *)
(*   Spec     the I/O path of a healthy top-level dRAID vdev               *)
(*   SpecOpen open, reopen and close of the top-level vdev                 *)
(*   SpecSpare the distributed spares and the resilver decision            *)
(*   SpecRead the I/O path of a vdev with unreadable and stale children    *)
(*   SpecPlace the placement of the I/Os of a vdev on its opened children  *)
(***************************************************************************)
EXTENDS Integers, Naturals, Sequences, FiniteSets, TLC

VARIABLES
    lres,       \* result of the last vdev_draid_lookup_map call, or NoLookup
    map,        \* the draid_map_t built by vdev_draid_generate_map, or NullMap
    gerr,       \* return value of vdev_draid_generate_map
    tampered,   \* index of the byte of map.dm_perms changed after generation
    chk,        \* argument and return value of the last check_map call
    vd,         \* the top-level vdev: vdev_ashift and the nvlist values
    vdc,        \* vd->vdev_tsd, the vdev_draid_config_t
    kids,       \* vd->vdev_child[]: the state of each child vdev
    opn,        \* the last vdev_draid_open call: its return value and outputs
    sp,         \* the distributed spares: where they sit, their vdev_tsd, last call
    geo,        \* last call of a sizing helper and its result
    zio,        \* the zio handed to vdev_draid_io_start
    rm,         \* zio->io_vsd, the raidz_map_t of the zio
    cios,       \* child zios created by vdev_draid_io_start, in issue order
    stripe,     \* sectors stored on the children by the most recent write
    rbuf,       \* contents of zio->io_abd after the child reads completed
    calls,      \* the calls vdev_draid_io_start made for the zio, in order
    xl          \* the ranges vdev_draid_xlate returned for the zio's logical range

mapvars == <<lres, map, gerr, tampered, chk>>
cfgvars == <<vd, vdc, kids, opn, sp>>
iovars == <<zio, rm, cios, stripe, rbuf, calls, xl>>
vars == <<lres, map, gerr, tampered, chk, vd, vdc, kids, opn, sp, geo, zio, rm, cios, stripe, rbuf,
          calls, xl>>

\* NULL for a draid_map_t pointer: a map of no children and no rows
NullMap ==
    [dm_children |-> 0, dm_nperms |-> 0, dm_seed |-> <<>>, dm_checksum |-> 0,
     dm_perms |-> <<>>]
\* no vdev_draid_lookup_map call made yet
NoLookup ==
    [children |-> 0, err |-> "none", seed |-> <<>>, checksum |-> <<>>,
     nperms |-> 0, last |-> 0]

(***************************************************************************)
(* Bounds of the model.                                                    *)
(***************************************************************************)
\* largest child count explored (the source allows up to 255)
MaxChildren == 3
\* raw outputs of the PRNG are drawn from 0..RandMax
RandMax == 2
\* rows of the permutation map of an opened vdev (256 in the source)
MapNperms == 2
\* largest redundancy group number addressed by an I/O
MaxGroup == 5
\* largest I/O size in sectors
MaxSectors == 4

\* nperms values handed to vdev_draid_generate_map by the map utility
NpermsInputs == {1, 2}
\* children values handed to vdev_draid_lookup_map
LookupInputs == {0, 1, 2, 3, 100, 254, 255, 256, 1000}

Min(a, b) == IF a < b THEN a ELSE b
Max(a, b) == IF a > b THEN a ELSE b
Pow2(n) == 2 ^ n
Range(s) == {s[i] : i \in DOMAIN s}

RECURSIVE SumSeq(_)
SumSeq(s) == IF s = <<>> THEN 0 ELSE Head(s) + SumSeq(Tail(s))

(***************************************************************************)
(* Permutation engine.                                                     *)
(***************************************************************************)
VDEV_DRAID_MAX_MAPS == 254

\* draid_maps[i]: the frozen table, one entry per child count 2..255.  The
\* seeds and checksums are opaque values, distinct per entry.
draid_maps(i) ==
    [dm_children |-> i + 2, dm_nperms |-> 256,
     dm_seed |-> <<"seed", i + 2>>, dm_checksum |-> <<"checksum", i + 2>>]

\* What a read of draid_maps[VDEV_DRAID_MAX_MAPS], one entry past the end of
\* the array, can yield: whatever lies behind the table.
OobEntries(children) ==
    {[dm_children |-> c, dm_nperms |-> 0 - 1,
      dm_seed |-> <<"garbage">>, dm_checksum |-> <<"garbage">>] :
        c \in {0, children, children + 1}}

\* vdev_draid_lookup_map: for (i = 0; i <= VDEV_DRAID_MAX_MAPS; i++).
\* oob is the value read at index VDEV_DRAID_MAX_MAPS.
lookup_entry(i, oob) == IF i < VDEV_DRAID_MAX_MAPS THEN draid_maps(i) ELSE oob

vdev_draid_lookup_map(children, oob) ==
    LET hits == {i \in 0..VDEV_DRAID_MAX_MAPS :
                    lookup_entry(i, oob).dm_children = children}
        first == CHOOSE i \in hits : \A k \in hits : i <= k
    IN  IF hits = {}
        THEN [children |-> children, err |-> "ENOENT", seed |-> <<>>,
              checksum |-> <<>>, nperms |-> 0, last |-> VDEV_DRAID_MAX_MAPS]
        ELSE [children |-> children, err |-> "OK",
              seed |-> lookup_entry(first, oob).dm_seed,
              checksum |-> lookup_entry(first, oob).dm_checksum,
              nperms |-> lookup_entry(first, oob).dm_nperms,
              last |-> first]

\* fletcher_4_native_varsize(...).zc_word[0]: the sum of the buffer's whole
\* 32-bit native (little-endian) words; trailing bytes are not summed.  The
\* sum of at most 255 * 256 / 4 words below 2^32 cannot wrap 64 bits.
RECURSIVE fletcher_4_word0(_, _)
fletcher_4_word0(perms, nwords) ==
    IF nwords = 0 THEN 0
    ELSE LET b == 4 * (nwords - 1)
         IN  fletcher_4_word0(perms, nwords - 1) + perms[b + 1] + 256 * perms[b + 2]
                + 65536 * perms[b + 3] + 16777216 * perms[b + 4]

map_checksum(perms) == fletcher_4_word0(perms, Len(perms) \div 4)

\* The tally loop of check_map from flat index p on: counts are uint16_t.
check_rows_range_only(perms, children, p, counts) ==
    \A k \in DOMAIN perms : perms[k] < children

RECURSIVE check_rows(_, _, _, _)
check_rows(perms, children, p, counts) ==
    IF p = Len(perms) THEN TRUE
    ELSE LET i == p \div children
             val == perms[p + 1]
         IN  IF val >= children \/ counts[val] # i
             THEN FALSE
             ELSE check_rows(perms, children, p + 1,
                             [counts EXCEPT ![val] = (@ + 1) % 65536])

check_map_checksum_first(m) ==
    IF m.dm_checksum # 0 /\ m.dm_checksum # map_checksum(m.dm_perms)
    THEN "ECKSUM"
    ELSE IF ~check_rows(m.dm_perms, m.dm_children, 0, [v \in 0..(m.dm_children - 1) |-> 0])
         THEN "EINVAL"
         ELSE "OK"

check_map(m) ==
    IF ~check_rows(m.dm_perms, m.dm_children, 0, [v \in 0..(m.dm_children - 1) |-> 0])
    THEN "EINVAL"
    ELSE IF m.dm_checksum # 0 /\ m.dm_checksum # map_checksum(m.dm_perms)
         THEN "ECKSUM"
         ELSE "OK"

alloc_map(children, nperms, seed, checksum) ==
    [dm_children |-> children, dm_nperms |-> nperms, dm_seed |-> seed,
     dm_checksum |-> checksum, dm_perms |-> <<>>]

\* One step of the Fisher-Yates loop: k = rand % (j + 1), swap row[j], row[k]
\* (rows are indexed from 1 here, from 0 in the source).
fy_lost_swap(row, j, rand) ==
    LET k == rand % (j + 1) IN [row EXCEPT ![j + 1] = row[k + 1]]

fy_swap(row, j, rand) ==
    LET k == rand % (j + 1)
    IN  [row EXCEPT ![j + 1] = row[k + 1], ![k + 1] = row[j + 1]]

\* for (j = children - 1; j > 0; j--): rands[pos] is the next PRNG output.
RECURSIVE shuffle_row(_, _, _, _)
shuffle_row(row, j, rands, pos) ==
    IF j = 0 THEN row
    ELSE shuffle_row(fy_swap(row, j, rands[pos]), j - 1, rands, pos + 1)

\* for (i = 0; i < nperms; i++): each row is shuffled from the previous one.
RECURSIVE shuffle_rows(_, _, _, _, _)
shuffle_rows(previous_row, children, nperms, rands, i) ==
    IF i = nperms THEN <<>>
    ELSE LET current_row == shuffle_row(previous_row, children - 1, rands,
                                        i * (children - 1) + 1)
         IN  current_row \o shuffle_rows(current_row, children, nperms, rands, i + 1)

\* vdev_draid_generate_map; rands are the successive values of
\* vdev_draid_rand, an external generator.
vdev_draid_generate_map(children, map_seed, checksum, nperms, rands) ==
    LET initial_row == [i \in 1..children |-> (i - 1) % 256]
        m == [alloc_map(children, nperms, map_seed, checksum) EXCEPT
                 !.dm_perms = shuffle_rows(initial_row, children, nperms, rands, 0)]
        error == check_map(m)
    IN  IF error # "OK" THEN [err |-> error, map |-> NullMap]
        ELSE [err |-> "OK", map |-> m]

\* PRNG streams of the length one generation consumes
RandStreams(children, nperms) == [1..(nperms * (children - 1)) -> 0..RandMax]

\* Expected checksums handed to generate: none (0), the checksum of the map
\* the all-zero PRNG stream yields, and a value that is not that checksum.
ChecksumInputs(children, nperms) ==
    LET ref == map_checksum(shuffle_rows([i \in 1..children |-> i - 1], children, nperms,
                                [p \in 1..(nperms * (children - 1)) |-> 0], 0))
    IN  {0, ref, ref + 1}

\* no check_map call made yet
NoCheck == [err |-> "none", m |-> NullMap, rerun |-> FALSE]

MapIdle ==
    /\ lres = NoLookup
    /\ map = NullMap
    /\ gerr = "none"
    /\ tampered = 0
    /\ chk = NoCheck

\* vdev_draid_lookup_map(children, ...), called before any map is generated
LookupMap(children, oob) ==
    /\ lres.err = "none"
    /\ gerr = "none"
    /\ lres' = vdev_draid_lookup_map(children, oob)
    /\ UNCHANGED <<map, gerr, tampered, chk>>

\* vdev_draid_generate_map(children, seed, checksum, nperms, &map): with the
\* child count of a successful lookup (vdev_draid_config_create), or with
\* any child count (the map utility).
GenerateMap(children, checksum, nperms, rands) ==
    /\ gerr = "none"
    /\ lres.err = "none" \/ (lres.err = "OK" /\ lres.children = children)
    /\ LET r == vdev_draid_generate_map(children, <<"seed", children>>, checksum,
                                        nperms, rands)
       IN  /\ gerr' = r.err
           /\ map' = r.map
           /\ chk' = [err |-> r.err, rerun |-> FALSE,
                      m |-> [alloc_map(children, nperms, <<"seed", children>>, checksum)
                              EXCEPT !.dm_perms =
                                  shuffle_rows([i \in 1..children |-> (i - 1) % 256],
                                               children, nperms, rands, 0)]]
    /\ UNCHANGED <<lres, tampered>>

\* The tamper test: one byte of a generated map is overwritten.
TamperMap(idx, val) ==
    /\ gerr = "OK"
    /\ tampered = 0
    /\ ~chk.rerun
    /\ idx \in 1..Len(map.dm_perms)
    /\ val # map.dm_perms[idx]
    /\ map' = [map EXCEPT !.dm_perms[idx] = val]
    /\ tampered' = idx
    /\ UNCHANGED <<lres, gerr, chk>>

\* check_map(map) run again on the map in memory
CheckMap ==
    /\ gerr = "OK"
    /\ chk' = [err |-> check_map(map), m |-> map, rerun |-> TRUE]
    /\ UNCHANGED <<lres, map, gerr, tampered>>

(***************************************************************************)
(* uint64_t arithmetic.  A value is four 16-bit limbs, least significant   *)
(* first; every operation is taken modulo 2^64 as in the source.           *)
(***************************************************************************)
Limb == 2 ^ 16

U64FromNat(n) == <<n % Limb, (n \div Limb) % Limb, 0, 0>>
U64Max == <<Limb - 1, Limb - 1, Limb - 1, Limb - 1>>
U64Zero == <<0, 0, 0, 0>>

\* x fits the integers of the model (x < 2^31)
U64Fits(x) == x[3] = 0 /\ x[4] = 0 /\ x[2] < 2 ^ 15
U64ToNat(x) == x[1] + Limb * x[2]

\* x + a, 0 <= a < 2^15
U64AddSmall(x, a) ==
    LET s1 == x[1] + a
        s2 == x[2] + (s1 \div Limb)
        s3 == x[3] + (s2 \div Limb)
        s4 == x[4] + (s3 \div Limb)
    IN  <<s1 % Limb, s2 % Limb, s3 % Limb, s4 % Limb>>

\* x - a, 0 <= a < 2^15
U64SubSmall(x, a) ==
    LET d1 == x[1] - a
        d2 == x[2] - (IF d1 < 0 THEN 1 ELSE 0)
        d3 == x[3] - (IF d2 < 0 THEN 1 ELSE 0)
        d4 == x[4] - (IF d3 < 0 THEN 1 ELSE 0)
    IN  <<(d1 + Limb) % Limb, (d2 + Limb) % Limb, (d3 + Limb) % Limb, (d4 + Limb) % Limb>>

\* x * m, 0 <= m < 2^15
U64MulSmall(x, m) ==
    LET p1 == x[1] * m
        p2 == x[2] * m + (p1 \div Limb)
        p3 == x[3] * m + (p2 \div Limb)
        p4 == x[4] * m + (p3 \div Limb)
    IN  <<p1 % Limb, p2 % Limb, p3 % Limb, p4 % Limb>>

\* x / d and x % d, 0 < d < 2^15
U64DivSmall(x, d) ==
    LET t4 == x[4]
        t3 == (t4 % d) * Limb + x[3]
        t2 == (t3 % d) * Limb + x[2]
        t1 == (t2 % d) * Limb + x[1]
    IN  <<t1 \div d, t2 \div d, t3 \div d, t4 \div d>>

U64ModSmall(x, d) ==
    LET t4 == x[4]
        t3 == (t4 % d) * Limb + x[3]
        t2 == (t3 % d) * Limb + x[2]
        t1 == (t2 % d) * Limb + x[1]
    IN  t1 % d

U64Shl(x, n) == U64MulSmall(x, 2 ^ n)
U64Shr(x, n) == U64DivSmall(x, 2 ^ n)

U64Lt(x, y) ==
    \/ x[4] < y[4]
    \/ x[4] = y[4] /\ x[3] < y[3]
    \/ x[4] = y[4] /\ x[3] = y[3] /\ x[2] < y[2]
    \/ x[4] = y[4] /\ x[3] = y[3] /\ x[2] = y[2] /\ x[1] < y[1]
U64Le(x, y) == x = y \/ U64Lt(x, y)
U64Min(x, y) == IF U64Lt(x, y) THEN x ELSE y

\* P2ROUNDUP(x, align) = -(-(x) & -(align)), align a power of two below 2^15
P2ROUNDUP(x, align) == U64MulSmall(U64DivSmall(U64AddSmall(x, align - 1), align), align)

(***************************************************************************)
(* Configuration.                                                          *)
(***************************************************************************)
VDEV_DRAID_ROWSHIFT == 24
VDEV_DRAID_ROWSIZE == 2 ^ VDEV_DRAID_ROWSHIFT
SPA_MAXBLOCKSIZE == 2 ^ VDEV_DRAID_ROWSHIFT
VDEV_RAIDZ_MAXPARITY == 3

\* vdev_ashift values of the top-level vdev
AshiftInputs == {9, 12}

\* The least number of groups that fills whole rows, and its double.
NgroupsInputs(groupwidth, ndisks) ==
    LET ok == {n \in 1..(2 * ndisks) : (groupwidth * n) % ndisks = 0}
        least == CHOOSE n \in ok : \A k \in ok : n <= k
    IN  {least, 2 * least}

\* The top-level vdevs a pool configuration can describe: nparity in 1..3,
\* nparity < children, ndata + nparity <= children - nspares, and
\* groupwidth * ngroups a multiple of children - nspares.
ValidVdevs(ashifts) ==
    {v \in [vdev_ashift : ashifts, vdev_children : 2..MaxChildren,
            vdev_nparity : 1..VDEV_RAIDZ_MAXPARITY, vdev_ndata : 1..MaxChildren,
            vdev_nspares : 0..MaxChildren, vdev_ngroups : 1..(2 * MaxChildren)] :
        /\ v.vdev_children >= v.vdev_nparity + 1
        /\ v.vdev_nspares < v.vdev_children
        /\ v.vdev_ndata + v.vdev_nparity <= v.vdev_children - v.vdev_nspares
        /\ v.vdev_ngroups \in NgroupsInputs(v.vdev_ndata + v.vdev_nparity,
                                            v.vdev_children - v.vdev_nspares)}

\* vdev_draid_config_create.  The table's checksum for a child count is the
\* checksum of the map its seed generates, so generation succeeds; the map
\* has MapNperms rows and rands is the PRNG stream of the seed.
vdev_draid_config_create(v, rands) ==
    LET l == vdev_draid_lookup_map(v.vdev_children, draid_maps(0))
        cksum == map_checksum(shuffle_rows([i \in 1..v.vdev_children |-> i - 1],
                                  v.vdev_children, MapNperms, rands, 0))
        g == vdev_draid_generate_map(v.vdev_children, l.seed, cksum, MapNperms, rands)
        groupwidth == v.vdev_ndata + v.vdev_nparity
        ndisks == v.vdev_children - v.vdev_nspares
        groupsz == groupwidth * VDEV_DRAID_ROWSIZE
    IN  [vdc_ndata |-> v.vdev_ndata, vdc_nparity |-> v.vdev_nparity,
         vdc_nspares |-> v.vdev_nspares, vdc_children |-> v.vdev_children,
         vdc_ngroups |-> v.vdev_ngroups, vdc_map |-> g.map,
         vdc_groupwidth |-> groupwidth, vdc_ndisks |-> ndisks,
         vdc_groupsz |-> groupsz,
         vdc_devslicesz |-> (groupsz * v.vdev_ngroups) \div ndisks]

\* PRNG streams of the seeds of the frozen table: one constant stream per value
SeedStreams(children) ==
    {[p \in 1..(MapNperms * (children - 1)) |-> r] : r \in 0..RandMax}

\* A leaf child that opened, is readable and has an empty DTL
HealthyDisk == [ops |-> "disk", readable |-> TRUE, dtl_missing |-> FALSE]

\* no call on a distributed spare made yet
NoSpareRes ==
    [op |-> "none", s |-> 0, type |-> "NONE", offset |-> 0, flags |-> {}, cmd |-> "NONE",
     has_trim |-> FALSE, birth |-> "NONE", partial |-> FALSE, err |-> "none",
     cio |-> <<>>, ret |-> FALSE, kind |-> "NULL", slot |-> 0, sub |-> 0,
     path |-> [parsed |-> FALSE, parity |-> 0, vdev_id |-> 0, spare_id |-> 0]]
\* no distributed spare in the pool
NoSpare == [sid |-> <<>>, vds |-> <<>>, res |-> NoSpareRes]

\* no vdev_draid_open call made yet; debug tells whether the build compiles
\* the ASSERTs in (ZFS_DEBUG)
NoOpen ==
    [err |-> "none", aux |-> "NONE", first |-> FALSE, nopened |-> 0, asize |-> 0,
     ashift |-> 0, debug |-> FALSE, obj |-> 0, live |-> 0]

\* An opened top-level dRAID vdev on a healthy pool
ConfigInit(ashifts) ==
    /\ opn = NoOpen
    /\ sp = NoSpare
    /\ vd \in ValidVdevs(ashifts)
    /\ \E rands \in SeedStreams(vd.vdev_children) :
           vdc = vdev_draid_config_create(vd, rands)
    /\ kids = [i \in 0..(vd.vdev_children - 1) |-> HealthyDisk]

\* No vdev opened
NoVdev ==
    [vdev_ashift |-> 0, vdev_children |-> 0, vdev_nparity |-> 0, vdev_ndata |-> 0,
     vdev_nspares |-> 0, vdev_ngroups |-> 0]
NoConfig ==
    [vdc_ndata |-> 0, vdc_nparity |-> 0, vdc_nspares |-> 0, vdc_children |-> 0,
     vdc_ngroups |-> 0, vdc_map |-> NullMap, vdc_groupwidth |-> 0, vdc_ndisks |-> 0,
     vdc_groupsz |-> 0, vdc_devslicesz |-> 0]
ConfigIdle == vd = NoVdev /\ vdc = NoConfig /\ kids = <<>> /\ opn = NoOpen /\ sp = NoSpare

(***************************************************************************)
(* Block sizing.                                                           *)
(***************************************************************************)
\* vdev_draid_asize: psize and the result are uint64_t
asize_rows_floor(v, c, psize) ==
    LET rows == U64AddSmall(U64DivSmall(psize, c.vdc_ndata * (2 ^ v.vdev_ashift)), 1)
    IN  U64Shl(U64MulSmall(rows, c.vdc_groupwidth), v.vdev_ashift)

vdev_draid_asize(v, c, psize) ==
    LET rows == U64AddSmall(U64DivSmall(U64SubSmall(psize, 1),
                                        c.vdc_ndata * (2 ^ v.vdev_ashift)), 1)
    IN  U64Shl(U64MulSmall(rows, c.vdc_groupwidth), v.vdev_ashift)

\* vdev_draid_asize_to_psize
vdev_draid_asize_to_psize(c, asize) ==
    U64MulSmall(U64DivSmall(asize, c.vdc_groupwidth), c.vdc_ndata)

\* vdev_draid_max_rebuildable_asize
vdev_draid_max_rebuildable_asize(v, c, max_segment) ==
    LET psize0 == U64Min(P2ROUNDUP(U64MulSmall(max_segment, c.vdc_ndata),
                                   2 ^ v.vdev_ashift),
                         U64FromNat(SPA_MAXBLOCKSIZE))
        psize1 == U64Shr(psize0, v.vdev_ashift)
        psize2 == U64DivSmall(psize1, c.vdc_ndata)
        psize3 == U64MulSmall(psize2, c.vdc_ndata)
        psize4 == U64Shl(psize3, v.vdev_ashift)
    IN  vdev_draid_asize(v, c, psize4)

\* psize values handed to vdev_draid_asize, in bytes
PsizeInputs(v) ==
    LET unit == 2 ^ v.vdev_ashift
    IN  {k * unit : k \in 1..MaxSectors}
            \cup {1, unit - 1, unit + 1, SPA_MAXBLOCKSIZE - unit, SPA_MAXBLOCKSIZE}

\* max_segment values handed to vdev_draid_max_rebuildable_asize
MaxSegmentInputs(v) ==
    {U64FromNat(n) : n \in {1, 2 ^ v.vdev_ashift, 3 * (2 ^ v.vdev_ashift),
                            2 ^ 20, SPA_MAXBLOCKSIZE, 2 ^ 30}}
        \cup {U64Max, <<0, 0, 0, 2 ^ 15>>}

NoGeo == [op |-> "none", arg |-> U64Zero, res |-> U64Zero, base |-> U64Zero]

\* vdev_draid_asize(psize) on a fresh psize
Asize(psize) ==
    /\ geo' = [op |-> "asize", arg |-> U64FromNat(psize),
               res |-> vdev_draid_asize(vd, vdc, U64FromNat(psize)), base |-> U64Zero]
    /\ UNCHANGED <<mapvars, cfgvars, iovars>>

\* vdev_draid_asize_to_psize on the asize just computed
AsizeToPsize ==
    /\ geo.op = "asize"
    /\ geo' = [op |-> "asize_to_psize", arg |-> geo.res,
               res |-> vdev_draid_asize_to_psize(vdc, geo.res), base |-> geo.res]
    /\ UNCHANGED <<mapvars, cfgvars, iovars>>

\* vdev_draid_asize on the psize just deflated from an asize
AsizeOfPsize ==
    /\ geo.op = "asize_to_psize"
    /\ geo' = [op |-> "asize", arg |-> geo.res,
               res |-> vdev_draid_asize(vd, vdc, geo.res), base |-> geo.base]
    /\ UNCHANGED <<mapvars, cfgvars, iovars>>

\* vdev_draid_max_rebuildable_asize(max_segment)
MaxRebuildable(max_segment) ==
    /\ geo' = [op |-> "max_rebuildable", arg |-> max_segment,
               res |-> vdev_draid_max_rebuildable_asize(vd, vdc, max_segment),
               base |-> U64Zero]
    /\ UNCHANGED <<mapvars, cfgvars, iovars>>

(***************************************************************************)
(* Logical to physical mapping and the stripe builder.                     *)
(***************************************************************************)
\* vdev_draid_get_perm: base is the offset of the row in dm_perms
vdev_draid_get_perm(c, pindex) ==
    LET ncols == c.vdc_children
        poff == pindex % (c.vdc_map.dm_nperms * ncols)
    IN  [base |-> (poff \div ncols) * ncols, iter |-> poff % ncols]

\* vdev_draid_permute_id
permute_id_rotation_only(c, base, iter, index) == iter % c.vdc_children

permute_id_no_rotation_wrap(c, base, iter, index) ==
    c.vdc_map.dm_perms[base + index + 1] + iter

vdev_draid_permute_id(c, base, iter, index) ==
    (c.vdc_map.dm_perms[base + index + 1] + iter) % c.vdc_children

\* vdev_draid_logical_to_physical: the offset on the first child of the
\* group, with *perm and *start
vdev_draid_logical_to_physical(v, c, logical_offset) ==
    LET ashift == v.vdev_ashift
        blocks_per_row == VDEV_DRAID_ROWSIZE \div (2 ^ ashift)
        groupwidth == c.vdc_groupwidth
        ngroups == c.vdc_ngroups
        ndisks == c.vdc_ndisks
        group == logical_offset \div c.vdc_groupsz
        groupstart == (group * groupwidth) % ndisks
        b_offset == (logical_offset \div (2 ^ ashift)) % (blocks_per_row * groupwidth)
        perm == group \div ngroups
        row == (perm * ((groupwidth * ngroups) \div ndisks)) +
                   (((group % ngroups) * groupwidth) \div ndisks)
    IN  [physical_offset |-> ((blocks_per_row * row) + (b_offset \div groupwidth)) * (2 ^ ashift),
         perm |-> perm, start |-> groupstart]

\* vdev_draid_offset_to_group, vdev_draid_group_to_offset, vdev_draid_get_astart
vdev_draid_offset_to_group(c, offset) == offset \div c.vdc_groupsz
vdev_draid_group_to_offset(c, group) == group * c.vdc_groupsz
roundup_none(x, y) == x

roundup(x, y) == ((x + y - 1) \div y) * y
vdev_draid_get_astart(v, c, start) == roundup(start, c.vdc_groupwidth * (2 ^ v.vdev_ashift))

\* An ABD is the sequence of the buffer slices it is made of: a slice of
\* zio->io_abd ("io"), of the zero page ("zeros"), of rm_abd_skip ("skip"),
\* or a linear buffer of its own ("linear").
AbdSlice(src, off, len) == [src |-> src, off |-> off, len |-> len]
abd_get_size(abd) == SumSeq([k \in DOMAIN abd |-> abd[k].len])

\* zio->io_abd offset of data column c: the sizes of the data columns before it
RECURSIVE abd_off_of(_, _)
abd_off_of(m, c) ==
    IF c <= m.rm_firstdatacol THEN 0
    ELSE abd_off_of(m, c - 1) + m.rm_col[c - 1].rc_size

\* vdev_draid_map_alloc_write
map_alloc_write_unpadded(v, m) ==
    [m EXCEPT !.rm_col = [c \in DOMAIN m.rm_col |->
                             IF c >= m.rm_firstdatacol /\ c < m.rm_scols
                             THEN [m.rm_col[c] EXCEPT !.rc_abd =
                                      <<AbdSlice("io", abd_off_of(m, c), m.rm_col[c].rc_size)>>]
                             ELSE m.rm_col[c]],
              !.rm_cols = m.rm_scols]

vdev_draid_map_alloc_write(v, m) ==
    LET skip_size == 2 ^ v.vdev_ashift
        parity_size == m.rm_col[0].rc_size
        newcol(c) ==
            LET rc == m.rm_col[c]
                abd_off == abd_off_of(m, c)
                abd == IF m.rm_skipstart = 0 \/ c < m.rm_skipstart
                       THEN <<AbdSlice("io", abd_off, rc.rc_size)>>
                       ELSE IF c < m.rm_cols
                            THEN <<AbdSlice("io", abd_off, rc.rc_size),
                                   AbdSlice("zeros", 0, skip_size)>>
                            ELSE <<AbdSlice("zeros", 0, skip_size)>>
            IN  [rc EXCEPT !.rc_abd = abd, !.rc_size = parity_size]
    IN  [m EXCEPT !.rm_col = [c \in DOMAIN m.rm_col |->
                                 IF c >= m.rm_firstdatacol /\ c < m.rm_scols
                                 THEN newcol(c) ELSE m.rm_col[c]],
                  !.rm_cols = m.rm_scols]

\* Every column backed by the first sector of rm_abd_skip
skip_idx_first(m, c) == 0

\* int skip_idx = c - rm->rm_skipstart
skip_idx(m, c) == c - m.rm_skipstart

\* vdev_draid_map_alloc_scrub
vdev_draid_map_alloc_scrub(v, m) ==
    LET skip_size == 2 ^ v.vdev_ashift
        newcol(c) ==
            LET rc == m.rm_col[c]
                abd_off == abd_off_of(m, c)
                abd == IF m.rm_skipstart = 0 \/ c < m.rm_skipstart
                       THEN <<AbdSlice("io", abd_off, rc.rc_size)>>
                       ELSE IF c < m.rm_cols
                            THEN <<AbdSlice("io", abd_off, rc.rc_size),
                                   AbdSlice("skip", skip_idx(m, c) * skip_size, skip_size)>>
                            ELSE <<AbdSlice("skip", skip_idx(m, c) * skip_size, skip_size)>>
            IN  [rc EXCEPT !.rc_abd = abd, !.rc_size = abd_get_size(abd)]
    IN  [m EXCEPT !.rm_abd_skip = <<m.rm_nskip * skip_size>>,
                  !.rm_col = [c \in DOMAIN m.rm_col |->
                                 IF c >= m.rm_firstdatacol /\ c < m.rm_scols
                                 THEN newcol(c) ELSE m.rm_col[c]],
                  !.rm_cols = m.rm_scols]

\* vdev_draid_map_alloc_read
map_alloc_read_fixed_off(v, m) ==
    [m EXCEPT !.rm_col = [c \in DOMAIN m.rm_col |->
                             IF c >= m.rm_firstdatacol /\ c < m.rm_cols
                             THEN [m.rm_col[c] EXCEPT !.rc_abd =
                                      <<AbdSlice("io", 0, m.rm_col[c].rc_size)>>]
                             ELSE m.rm_col[c]]]

vdev_draid_map_alloc_read(v, m) ==
    [m EXCEPT !.rm_col = [c \in DOMAIN m.rm_col |->
                             IF c >= m.rm_firstdatacol /\ c < m.rm_cols
                             THEN [m.rm_col[c] EXCEPT !.rc_abd =
                                      <<AbdSlice("io", abd_off_of(m, c), m.rm_col[c].rc_size)>>]
                             ELSE m.rm_col[c]]]

\* The physical offset of column i: advanced by one row from column wrap on
col_offset_row_per_column(physical_offset, wrap, i) ==
    physical_offset + i * VDEV_DRAID_ROWSIZE

col_offset_late_wrap(physical_offset, wrap, i) ==
    IF i > wrap THEN physical_offset + VDEV_DRAID_ROWSIZE ELSE physical_offset

col_offset(physical_offset, wrap, i) ==
    IF i >= wrap THEN physical_offset + VDEV_DRAID_ROWSIZE ELSE physical_offset

\* The number of "big columns": bc = (r == 0 ? 0 : r + vdc_nparity)
big_columns_no_parity(r, nparity) == r

big_columns(r, nparity) == IF r = 0 THEN 0 ELSE r + nparity

\* vdev_draid_map_alloc
vdev_draid_map_alloc(v, c, z) ==
    LET l2p == vdev_draid_logical_to_physical(v, c, z.io_offset)
        groupstart == l2p.start
        ndisks == c.vdc_ndisks
        groupwidth == c.vdc_groupwidth
        wrap == IF groupstart + groupwidth > ndisks THEN ndisks - groupstart
                ELSE groupwidth
        ashift == v.vdev_ashift
        psize == z.io_size \div (2 ^ ashift)
        q == psize \div c.vdc_ndata
        r == psize - q * c.vdc_ndata
        bc == big_columns(r, c.vdc_nparity)
        tot == psize + (c.vdc_nparity * (q + (IF r = 0 THEN 0 ELSE 1)))
        cols == IF q = 0 THEN bc ELSE groupwidth
        p == vdev_draid_get_perm(c, l2p.perm)
        col(i) ==
            [rc_devidx |-> vdev_draid_permute_id(c, p.base, p.iter, (groupstart + i) % ndisks),
             rc_offset |-> col_offset(l2p.physical_offset, wrap, i),
             rc_abd |-> IF i < c.vdc_nparity
                        THEN <<AbdSlice("linear", 0,
                                  IF i >= cols THEN 0
                                  ELSE IF i < bc THEN (q + 1) * (2 ^ ashift)
                                  ELSE q * (2 ^ ashift))>>
                        ELSE <<>>,
             rc_error |-> "OK", rc_tried |-> 0, rc_skipped |-> 0, rc_repair |-> 0,
             rc_size |-> IF i >= cols THEN 0
                         ELSE IF i < bc THEN (q + 1) * (2 ^ ashift)
                         ELSE q * (2 ^ ashift)]
        asize == SumSeq([k \in 1..groupwidth |-> col(k - 1).rc_size])
        m0 == [rm_cols |-> cols, rm_scols |-> groupwidth, rm_bigcols |-> bc,
               rm_skipstart |-> bc, rm_missingdata |-> 0, rm_missingparity |-> 0,
               rm_firstdatacol |-> c.vdc_nparity, rm_abd_skip |-> <<>>,
               rm_asize |-> roundup(asize, groupwidth * (2 ^ ashift)),
               rm_nskip |-> roundup(tot, groupwidth) - tot,
               rm_col |-> [i \in 0..(groupwidth - 1) |-> col(i)]]
    IN  IF z.io_type = "WRITE" THEN vdev_draid_map_alloc_write(v, m0)
        ELSE IF m0.rm_nskip > 0 /\ z.io_flags \cap {"SCRUB", "RESILVER"} # {}
             THEN vdev_draid_map_alloc_scrub(v, m0)
             ELSE vdev_draid_map_alloc_read(v, m0)

(***************************************************************************)
(* I/O on the top-level vdev.                                              *)
(***************************************************************************)
NoZio ==
    [io_type |-> "NONE", io_offset |-> 0, io_size |-> 0, io_flags |-> {},
     io_txg |-> 0, stage |-> "none"]
NoRm ==
    [rm_cols |-> 0, rm_scols |-> 0, rm_bigcols |-> 0, rm_skipstart |-> 0,
     rm_missingdata |-> 0, rm_missingparity |-> 0, rm_firstdatacol |-> 0,
     rm_abd_skip |-> <<>>, rm_asize |-> 0, rm_nskip |-> 0, rm_col |-> <<>>]
NoStripe == [offset |-> 0, size |-> 0, sectors |-> {}]

NoXlate == [verify |-> <<>>, cid |-> 0, called |-> FALSE, rs_start |-> 0, rs_end |-> 0]

IoIdle ==
    /\ zio = NoZio
    /\ rm = NoRm
    /\ cios = <<>>
    /\ stripe = NoStripe
    /\ rbuf = <<>>
    /\ calls = <<>>
    /\ xl = NoXlate

\* A child taken as readable, and a DTL taken as empty, whatever its state
readable_always(cvd, physical_offset) == TRUE
dtl_never_missing(cvd, physical_offset, txg, size) == FALSE

\* vdev_draid_readable and vdev_draid_missing of a child that is a leaf disk
vdev_draid_readable(cvd, physical_offset) == cvd.readable
vdev_draid_missing(cvd, physical_offset, txg, size) == cvd.dtl_missing
\* vdev_draid_find_spare(cvd) != NULL
vdev_draid_find_spare(cvd) == cvd.ops = "draid_spare"

\* zio_vdev_child_io(zio, NULL, cvd, rc_offset, rc_abd, rc_size, io_type, ...)
zio_vdev_child_io(z, m, c) ==
    [cvd |-> m.rm_col[c].rc_devidx, offset |-> m.rm_col[c].rc_offset,
     abd |-> m.rm_col[c].rc_abd, size |-> m.rm_col[c].rc_size,
     type |-> z.io_type, col |-> c]

\* The write loop of vdev_draid_io_start: for (c = 0; c < rm_scols; c++)
write_cols_with_data(z, m) ==
    SelectSeq([k \in 1..m.rm_scols |-> zio_vdev_child_io(z, m, k - 1)],
              LAMBDA io : \E k \in DOMAIN io.abd : io.abd[k].src # "zeros")

write_cols(z, m) == [k \in 1..m.rm_scols |-> zio_vdev_child_io(z, m, k - 1)]

\* The read loop of vdev_draid_io_start: for (c = rm_cols - 1; c >= 0; c--)
RECURSIVE read_cols(_, _, _, _, _)
read_cols(k, z, m, ios, c) ==
    IF c < 0 THEN [rm |-> m, cios |-> ios]
    ELSE LET rc == m.rm_col[c]
             cvd == k[rc.rc_devidx]
             miss(mm) == IF c >= mm.rm_firstdatacol
                         THEN [mm EXCEPT !.rm_missingdata = @ + 1]
                         ELSE [mm EXCEPT !.rm_missingparity = @ + 1]
         IN  IF ~vdev_draid_readable(cvd, rc.rc_offset)
             THEN read_cols(k, z, [miss(m) EXCEPT !.rm_col[c].rc_error = "ENXIO",
                                                  !.rm_col[c].rc_tried = 1,
                                                  !.rm_col[c].rc_skipped = 1],
                            ios, c - 1)
             ELSE IF vdev_draid_missing(cvd, rc.rc_offset, z.io_txg, 1)
                  THEN read_cols(k, z, [miss(m) EXCEPT !.rm_col[c].rc_error = "ESTALE",
                                                       !.rm_col[c].rc_skipped = 1],
                                 ios, c - 1)
                  ELSE LET m1 == IF "RESILVER" \in z.io_flags /\ vdev_draid_find_spare(cvd)
                                 THEN [m EXCEPT !.rm_col[c].rc_repair = 1] ELSE m
                       IN  IF \/ c >= m1.rm_firstdatacol
                              \/ m1.rm_missingdata > 0
                              \/ z.io_flags \cap {"SCRUB", "RESILVER"} # {}
                           THEN read_cols(k, z, m1,
                                          Append(ios, zio_vdev_child_io(z, m1, c)), c - 1)
                           ELSE read_cols(k, z, m1, ios, c - 1)

\* Sector contents: sector idx of the buffer being written, a zero sector,
\* sector idx of the parity computed for column col, a sector never written.
DataSector(idx) == [kind |-> "data", col |-> 0, idx |-> idx]
ZeroSector == [kind |-> "zero", col |-> 0, idx |-> 0]
ParitySector(col, idx) == [kind |-> "parity", col |-> col, idx |-> idx]
UnknownSector == [kind |-> "unknown", col |-> 0, idx |-> 0]
ConflictSector == [kind |-> "conflict", col |-> 0, idx |-> 0]

\* The slice of an ABD that holds byte pos, and the offset within its source
RECURSIVE abd_at(_, _)
abd_at(abd, pos) ==
    IF abd = <<>> THEN [src |-> "none", off |-> 0]
    ELSE IF pos < Head(abd).len
         THEN [src |-> Head(abd).src, off |-> Head(abd).off + pos]
         ELSE abd_at(Tail(abd), pos - Head(abd).len)

\* The calls vdev_draid_io_start makes, in program order, when it issues the
\* child zios ios
io_start_calls(z, ios) ==
    IF z.io_type = "WRITE"
    THEN <<"vdev_draid_map_alloc", "vdev_raidz_generate_parity">>
             \o [k \in 1..(2 * Len(ios)) |->
                    IF k % 2 = 1 THEN "vdev_draid_io_verify" ELSE "zio_vdev_child_io"]
             \o <<"zio_execute">>
    ELSE <<"vdev_draid_map_alloc">>
             \o [k \in 1..Len(ios) |-> "zio_vdev_child_io"]
             \o <<"zio_execute">>

\* What a child write stores in sector s of its range
written_sector(v, cio, s) ==
    LET a == abd_at(cio.abd, s * (2 ^ v.vdev_ashift))
    IN  IF a.src = "io" THEN DataSector(a.off \div (2 ^ v.vdev_ashift))
        ELSE IF a.src = "zeros" THEN ZeroSector
        ELSE IF a.src = "linear" THEN ParitySector(cio.col, s)
        ELSE UnknownSector

\* The sectors the child writes of a stripe store
stored_sectors(v, ios) ==
    {[dev |-> ios[k].cvd, off |-> ios[k].offset + s * (2 ^ v.vdev_ashift),
      val |-> written_sector(v, ios[k], s)] :
        <<k, s>> \in {ks \in (DOMAIN ios) \X (0..(MaxSectors + 1)) :
                        ks[2] * (2 ^ v.vdev_ashift) < ios[ks[1]].size}}

\* What a child read finds at (dev, off)
disk_sector(st, dev, off) ==
    LET found == {e.val : e \in {x \in st.sectors : x.dev = dev /\ x.off = off}}
    IN  IF found = {} THEN UnknownSector
        ELSE IF Cardinality(found) = 1 THEN CHOOSE x \in found : TRUE
        ELSE ConflictSector

\* zio->io_abd after the child reads completed: sector n holds what the child
\* read whose ABD maps that sector found on disk
read_buffer(v, st, z, ios) ==
    LET unit == 2 ^ v.vdev_ashift
        landing(n) ==
            {disk_sector(st, ios[ks[1]].cvd, ios[ks[1]].offset + ks[2] * unit) :
                ks \in {x \in (DOMAIN ios) \X (0..(MaxSectors + 1)) :
                           /\ x[2] * unit < ios[x[1]].size
                           /\ abd_at(ios[x[1]].abd, x[2] * unit) = [src |-> "io", off |-> n * unit]}}
    IN  [n \in 1..(z.io_size \div unit) |->
            IF landing(n - 1) = {} THEN UnknownSector
            ELSE IF Cardinality(landing(n - 1)) = 1 THEN CHOOSE x \in landing(n - 1) : TRUE
            ELSE ConflictSector]

\* The loop of vdev_draid_xlate over the columns of the group: start and end
\* of the physical range of child cid
RECURSIVE xlate_cols(_, _, _, _, _, _, _)
xlate_cols(v, c, cid, l2p, b_size, i, start) ==
    IF i >= c.vdc_groupwidth THEN [rs_start |-> start, rs_end |-> start]
    ELSE LET col == (l2p.start + i) % c.vdc_ndisks
             p == vdev_draid_get_perm(c, l2p.perm)
             s == IF col = 0 /\ i # 0 THEN start + VDEV_DRAID_ROWSIZE ELSE start
         IN  IF vdev_draid_permute_id(c, p.base, p.iter, col) = cid
             THEN [rs_start |-> s,
                   rs_end |-> s + ((((b_size - 1) \div c.vdc_groupwidth) + 1)
                                      * (2 ^ v.vdev_ashift))]
             ELSE xlate_cols(v, c, cid, l2p, b_size, i + 1, s)

\* vdev_draid_xlate(cvd, in, res) for the child cvd with vdev_id cid
xlate_logical_span(v, c, cid, in) ==
    LET l2p == vdev_draid_logical_to_physical(v, c, in.rs_start)
    IN  [rs_start |-> l2p.physical_offset,
         rs_end |-> l2p.physical_offset + (in.rs_end - in.rs_start)]

vdev_draid_xlate(v, c, cid, in) ==
    xlate_cols(v, c, cid, vdev_draid_logical_to_physical(v, c, in.rs_start),
               (in.rs_end \div (2 ^ v.vdev_ashift)) - (in.rs_start \div (2 ^ v.vdev_ashift)),
               0, vdev_draid_logical_to_physical(v, c, in.rs_start).physical_offset)

\* The logical range vdev_draid_io_verify translates
io_logical_rs(v, c, z) ==
    [rs_start |-> z.io_offset,
     rs_end |-> z.io_offset + U64ToNat(vdev_draid_asize(v, c, U64FromNat(z.io_size)))]

\* vdev_draid_io_verify(zio, rm, col): the physical range and the outcome of
\* its three assertions
vdev_draid_io_verify(v, c, z, m, col) ==
    LET rc == m.rm_col[col]
        physical_rs == vdev_draid_xlate(v, c, rc.rc_devidx, io_logical_rs(v, c, z))
    IN  [col |-> col, rs_start |-> physical_rs.rs_start, rs_end |-> physical_rs.rs_end,
         ok |-> /\ rc.rc_offset = physical_rs.rs_start
                /\ rc.rc_offset < physical_rs.rs_end
                /\ rc.rc_offset + rc.rc_size = physical_rs.rs_end]

\* Offsets of a group-aligned block in group g, sector row b of the group
BlockOffset(v, c, group, row) ==
    vdev_draid_group_to_offset(c, group) + row * c.vdc_groupwidth * (2 ^ v.vdev_ashift)

\* Sector rows of a group addressed by the I/Os
RowInputs(v) == {0, 1, (VDEV_DRAID_ROWSIZE \div (2 ^ v.vdev_ashift)) - 1}

\* The allocator hands out blocks that start group-aligned and whose
\* allocated size lies within one group.
AllocatedBlock(v, c, offset, size) ==
    /\ size > 0
    /\ size <= SPA_MAXBLOCKSIZE
    /\ offset = vdev_draid_get_astart(v, c, offset)
    /\ U64Fits(vdev_draid_asize(v, c, U64FromNat(size)))
    /\ vdev_draid_offset_to_group(c, offset) =
           vdev_draid_offset_to_group(c,
               offset + U64ToNat(vdev_draid_asize(v, c, U64FromNat(size))) - 1)

\* vdev_draid_io_start of a write zio.  Blocks are written once (copy on
\* write): the model follows one block, written and then read back.
IoStartWrite(group, row, nsect) ==
    LET z == [io_type |-> "WRITE", io_offset |-> BlockOffset(vd, vdc, group, row),
              io_size |-> nsect * (2 ^ vd.vdev_ashift), io_flags |-> {},
              io_txg |-> 1, stage |-> "issued"]
        m == vdev_draid_map_alloc(vd, vdc, z)
    IN  /\ zio.stage = "none"
        /\ AllocatedBlock(vd, vdc, z.io_offset, z.io_size)
        /\ zio' = z
        /\ rm' = m
        /\ cios' = write_cols(z, m)
        /\ calls' = io_start_calls(z, write_cols(z, m))
        /\ xl' = [NoXlate EXCEPT !.verify =
                      [k \in 1..Len(write_cols(z, m)) |->
                          vdev_draid_io_verify(vd, vdc, z, m, write_cols(z, m)[k].col)]]
        /\ rbuf' = <<>>
        /\ UNCHANGED <<mapvars, cfgvars, geo, stripe>>

\* vdev_draid_io_start of a read zio for the block written last
IoStartRead(flags) ==
    LET z == [io_type |-> "READ", io_offset |-> stripe.offset,
              io_size |-> stripe.size, io_flags |-> flags,
              io_txg |-> 1, stage |-> "issued"]
        r == read_cols(kids, z, vdev_draid_map_alloc(vd, vdc, z), <<>>,
                       vdev_draid_map_alloc(vd, vdc, z).rm_cols - 1)
    IN  /\ zio.stage = "done"
        /\ stripe.size > 0
        /\ zio' = z
        /\ rm' = r.rm
        /\ cios' = r.cios
        /\ calls' = io_start_calls(z, r.cios)
        /\ xl' = NoXlate
        /\ rbuf' = <<>>
        /\ UNCHANGED <<mapvars, cfgvars, geo, stripe>>

\* The child zios of the zio complete: writes reach the children, reads
\* fill their ABDs.
ChildIosDone ==
    /\ zio.stage = "issued"
    /\ zio' = [zio EXCEPT !.stage = "done"]
    /\ IF zio.io_type = "WRITE"
       THEN /\ stripe' = [offset |-> zio.io_offset, size |-> zio.io_size,
                          sectors |-> stored_sectors(vd, cios)]
            /\ rbuf' = rbuf
       ELSE /\ rbuf' = read_buffer(vd, stripe, zio, cios)
            /\ stripe' = stripe
    /\ UNCHANGED <<mapvars, cfgvars, geo, rm, cios, calls, xl>>

\* vdev_draid_map_include_skip_sectors on the map of a read that completed:
\* the data ABDs are released and the map is laid out again for scrub
IncludeSkipSectors ==
    /\ zio.io_type = "READ"
    /\ zio.stage = "done"
    /\ rm.rm_abd_skip = <<>>
    /\ rm' = vdev_draid_map_alloc_scrub(vd,
                 [rm EXCEPT !.rm_col = [c \in DOMAIN rm.rm_col |->
                     IF c >= rm.rm_firstdatacol /\ c < rm.rm_cols
                     THEN [rm.rm_col[c] EXCEPT !.rc_abd = <<>>] ELSE rm.rm_col[c]]])
    /\ UNCHANGED <<mapvars, cfgvars, geo, zio, cios, stripe, rbuf, calls, xl>>

\* vdev_xlate of the logical range of the write zio for the child cid
Xlate(cid) ==
    /\ zio.io_type = "WRITE"
    /\ cid \in DOMAIN kids
    /\ xl' = [xl EXCEPT !.cid = cid, !.called = TRUE,
                        !.rs_start = vdev_draid_xlate(vd, vdc, cid,
                                         io_logical_rs(vd, vdc, zio)).rs_start,
                        !.rs_end = vdev_draid_xlate(vd, vdc, cid,
                                       io_logical_rs(vd, vdc, zio)).rs_end]
    /\ UNCHANGED <<mapvars, cfgvars, geo, zio, rm, cios, stripe, rbuf, calls>>

(***************************************************************************)
(* Opening and closing the top-level vdev.                                 *)
(***************************************************************************)
\* Rows of VDEV_DRAID_ROWSIZE on the child devices of the pools opened
ChildRows == 4

\* A child disk: fails tells whether opening the device fails
ChildDisk(fails) ==
    [ops |-> "disk", readable |-> ~fails, dtl_missing |-> FALSE, fails |-> fails,
     open |-> FALSE, vdev_open_error |-> "OK",
     vdev_asize |-> ChildRows * VDEV_DRAID_ROWSIZE + 4096, vdev_ashift |-> 12]

\* The values a pool configuration nvlist can hand to vdev_draid_open,
\* within and outside the constraints of a dRAID
NvlistVdevs ==
    {v \in [vdev_ashift : {12}, vdev_children : 1..MaxChildren \cup {256},
            vdev_nparity : 0..(VDEV_RAIDZ_MAXPARITY + 1), vdev_ndata : 1..2,
            vdev_nspares : 0..1, vdev_ngroups : 1..2] : TRUE}

\* vdev_draid_config_create returning NULL: the lookup failed
config_create_fails(v, oob) == vdev_draid_lookup_map(v.vdev_children, oob).err # "OK"

\* vdev_draid_config_create using the entry read past the end of draid_maps
config_create_undefined(v, oob) ==
    LET l == vdev_draid_lookup_map(v.vdev_children, oob)
    IN  l.err = "OK" /\ l.last = VDEV_DRAID_MAX_MAPS

\* The ASSERTs that close vdev_draid_config_create
config_asserts(v) ==
    LET groupwidth == v.vdev_ndata + v.vdev_nparity
        ndisks == v.vdev_children - v.vdev_nspares
        groupsz == groupwidth * VDEV_DRAID_ROWSIZE
        devslicesz == (groupsz * v.vdev_ngroups) \div ndisks
    IN  /\ groupwidth >= 2
        /\ groupwidth <= ndisks
        /\ groupsz >= 2 * VDEV_DRAID_ROWSIZE
        /\ devslicesz >= VDEV_DRAID_ROWSIZE
        /\ devslicesz % VDEV_DRAID_ROWSIZE = 0
        /\ (groupwidth * v.vdev_ngroups) % ndisks = 0

\* vdev_open_children_subset, twice: every child is opened
open_children(k) ==
    [c \in DOMAIN k |->
        [k[c] EXCEPT !.open = ~k[c].fails,
                     !.vdev_open_error = IF k[c].fails THEN "ENXIO" ELSE "OK"]]

\* for (c = 0; c < children; c++) vdev_close(vd->vdev_child[c])
close_children(k) == [c \in DOMAIN k |-> [k[c] EXCEPT !.open = FALSE]]

\* The number of children with vdev_open_error != 0
open_errors_any(k, nparity) == 0

open_errors(k, nparity) == Cardinality({c \in DOMAIN k : k[c].vdev_open_error # "OK"})

\* The largest asize of the children in place of the smallest
calculate_asize_largest(k) ==
    [asize |-> CHOOSE a \in {k[c].vdev_asize : c \in DOMAIN k} :
                   \A c \in DOMAIN k : a >= k[c].vdev_asize,
     ashift |-> CHOOSE a \in {k[c].vdev_ashift : c \in DOMAIN k} :
                    \A c \in DOMAIN k : a >= k[c].vdev_ashift]

\* vdev_draid_calculate_asize: the smallest asize of the children that are
\* not distributed spares (0 when there is none), and the largest ashift
calculate_asize(k) ==
    LET disks == {c \in DOMAIN k : k[c].ops # "draid_spare"}
    IN  [asize |-> IF disks = {} THEN 0
                   ELSE CHOOSE a \in {k[c].vdev_asize : c \in disks} :
                           \A c \in disks : a <= k[c].vdev_asize,
         ashift |-> IF disks = {} THEN 0
                    ELSE CHOOSE a \in {k[c].vdev_ashift : c \in disks} :
                            \A c \in disks : a >= k[c].vdev_ashift]

\* The part of vdev_draid_open after vdev_tsd is set: open the children,
\* count the failures, compute the allocatable capacity
open_tail(first, c, k, o) ==
    LET k2 == open_children(k)
        ca == calculate_asize(k2)
        child_asize == (ca.asize \div VDEV_DRAID_ROWSIZE) * VDEV_DRAID_ROWSIZE
    IN  IF open_errors(k2, c.vdc_nparity) > c.vdc_nparity
        THEN [kids |-> k2,
              opn |-> [o EXCEPT !.err = "ENXIO", !.aux = "NO_REPLICAS", !.first = first,
                                !.nopened = Cardinality(DOMAIN k)]]
        ELSE [kids |-> k2,
              opn |-> [o EXCEPT !.err = "OK", !.first = first,
                                !.nopened = Cardinality(DOMAIN k),
                                !.asize = ((child_asize * c.vdc_ndisks) \div c.vdc_groupsz)
                                              * c.vdc_groupsz,
                                !.ashift = ca.ashift]]

\* vdev_draid_open with vdev_tsd == NULL.  A division by zero or a failed
\* ASSERT ends the system ("PANIC"); a configuration built from the entry
\* read past the end of draid_maps is undefined behaviour ("UNDEFINED").
Open(rands, oob) ==
    /\ opn.err \in {"none", "closed", "EINVAL"}
    /\ vdc = NoConfig
    /\ rands \in SeedStreams(vd.vdev_children)
    /\ IF vd.vdev_nparity > VDEV_RAIDZ_MAXPARITY \/ vd.vdev_children < vd.vdev_nparity + 1
       THEN /\ opn' = [opn EXCEPT !.err = "EINVAL", !.aux = "BAD_LABEL", !.first = TRUE,
                                  !.nopened = 0]
            /\ UNCHANGED <<vd, vdc, kids>>
       ELSE IF config_create_fails(vd, oob)
       THEN /\ opn' = [opn EXCEPT !.err = "EINVAL", !.first = TRUE, !.nopened = 0]
            /\ UNCHANGED <<vd, vdc, kids>>
       ELSE IF config_create_undefined(vd, oob)
       THEN /\ opn' = [opn EXCEPT !.err = "UNDEFINED", !.first = TRUE, !.nopened = 0]
            /\ UNCHANGED <<vd, vdc, kids>>
       ELSE IF vd.vdev_children = vd.vdev_nspares \/ (opn.debug /\ ~config_asserts(vd))
       THEN /\ opn' = [opn EXCEPT !.err = "PANIC", !.first = TRUE, !.nopened = 0]
            /\ UNCHANGED <<vd, vdc, kids>>
       ELSE LET c == vdev_draid_config_create(vd, rands)
                t == open_tail(TRUE, c, kids, opn)
            IN  /\ vdc' = c
                /\ kids' = t.kids
                /\ opn' = [t.opn EXCEPT !.obj = 1 - opn.obj, !.live = opn.live + 1]
                /\ UNCHANGED vd

\* vdev_draid_close tearing the configuration down whatever vdev_reopening is
close_destroys_always(reopening, c) == c # NoConfig

\* vdev_draid_close calls vdev_draid_config_destroy and clears vdev_tsd
close_destroys(reopening, c) == ~(reopening \/ c = NoConfig)

\* vdev_draid_close outside a reopen.  opn.live counts the
\* vdev_draid_config_t allocations not yet freed, opn.obj tells the
\* allocation vdev_tsd points to from the one before it.
Close ==
    /\ opn.err \in {"OK", "ENXIO", "EINVAL"}
    /\ kids' = close_children(kids)
    /\ IF close_destroys(FALSE, vdc)
       THEN /\ vdc' = NoConfig
            /\ opn' = [opn EXCEPT !.err = "closed", !.live = opn.live - 1]
       ELSE /\ vdc' = vdc
            /\ opn' = [opn EXCEPT !.err = "closed"]
    /\ UNCHANGED vd

\* vdev_reopen: vdev_draid_close and vdev_draid_open with vdev_reopening
\* set; the configuration is kept
Reopen ==
    /\ opn.err \in {"OK", "ENXIO"}
    /\ vdc # NoConfig
    /\ IF close_destroys(TRUE, vdc)
       THEN \E rands \in SeedStreams(vd.vdev_children) :
                LET c == vdev_draid_config_create(vd, rands)
                    t == open_tail(FALSE, c, close_children(kids), opn)
                IN  /\ vdc' = c
                    /\ kids' = t.kids
                    /\ opn' = [t.opn EXCEPT !.obj = 1 - opn.obj]
       ELSE LET t == open_tail(FALSE, vdc, close_children(kids), opn)
            IN  /\ vdc' = vdc
                /\ kids' = t.kids
                /\ opn' = t.opn
    /\ UNCHANGED vd

\* A child device that could be opened stops responding
ChildFault(c) ==
    /\ opn.err \in {"none", "OK", "ENXIO", "closed"}
    /\ c \in DOMAIN kids
    /\ ~kids[c].fails
    /\ \A b \in DOMAIN kids : b < c => kids[b].fails
    /\ kids' = [kids EXCEPT ![c].fails = TRUE, ![c].readable = FALSE]
    /\ UNCHANGED <<vd, vdc, opn>>

(***************************************************************************)
(* Distributed spares and the resilver decision.                           *)
(***************************************************************************)
\* The label regions at the start and the end of every vdev
VDEV_LABEL_START_SIZE == 2 ^ 22
VDEV_LABEL_END_SIZE == 2 ^ 19
VDEV_OFFSET_IS_LABEL(psize, off) ==
    off < VDEV_LABEL_START_SIZE \/ off >= psize - VDEV_LABEL_END_SIZE

\* vd->vdev_tsd of a distributed spare that is closed
ClosedSpare == [open |-> FALSE, psize |-> 0, vds_spare_id |-> 0]

\* The slot of the top-level vdev taken by: a leaf disk, a replacing vdev of
\* two disks, a sparing vdev of a disk and distributed spare sid, or
\* distributed spare sid itself.  sid = nspares where there is no spare.
SlotKinds(nspares) ==
    {k \in [ops : {"disk", "replacing", "spare", "draid_spare"}, sid : 0..nspares] :
        (k.ops \in {"disk", "replacing"}) <=> (k.sid = nspares)}

\* The vdev trees below the top-level vdev: spare 0 is unused or attached in
\* slot 0, slot 1 is a disk, a replacing vdev or holds spare 1, the other
\* slots are plain disks
Arrangements(v) ==
    {a \in [0..(v.vdev_children - 1) -> SlotKinds(v.vdev_nspares)] :
        /\ \A i \in DOMAIN a : i >= 2 => a[i].ops = "disk"
        /\ a[0].ops # "replacing" /\ a[0].sid \in {0, v.vdev_nspares}
        /\ a[1].sid \in {1, v.vdev_nspares}}

\* Pools with distributed spares: single parity, one data column
SpareVdevs ==
    {v \in [vdev_ashift : {12}, vdev_children : {MaxChildren, MaxChildren + 1},
            vdev_nparity : {1}, vdev_ndata : {1}, vdev_nspares : 1..2,
            vdev_ngroups : 1..(2 * MaxChildren)] :
        /\ v.vdev_ndata + v.vdev_nparity <= v.vdev_children - v.vdev_nspares
        /\ v.vdev_ngroups = CHOOSE n \in NgroupsInputs(v.vdev_ndata + v.vdev_nparity,
                                        v.vdev_children - v.vdev_nspares) :
               \A m \in NgroupsInputs(v.vdev_ndata + v.vdev_nparity,
                                      v.vdev_children - v.vdev_nspares) : n <= m}

\* vd->vdev_parent->vdev_ops of the vdev in slot ref.slot (sub = 0) or of its
\* child number sub
vdev_parent_ops(k, ref) == IF ref.sub = 0 THEN "draid" ELSE k[ref.slot].ops

\* vdev_draid_spare_get_child of distributed spare s.  kind is NULL, child
\* (the vdev in slot), or diverges when the recursion reaches a spare again.
RECURSIVE vdev_draid_spare_get_child(_, _, _, _, _, _)
spare_get_child_first_slot(c, k, t, s, physical_offset, seen) ==
    [kind |-> "child", slot |-> 0, sub |-> 0]

vdev_draid_spare_get_child(c, k, t, s, physical_offset, seen) ==
    IF \/ ~t.vds[s].open
       \/ physical_offset >= t.vds[s].psize - (VDEV_LABEL_START_SIZE + VDEV_LABEL_END_SIZE)
    THEN [kind |-> "NULL", slot |-> 0, sub |-> 0]
    ELSE LET p == vdev_draid_get_perm(c, physical_offset \div c.vdc_devslicesz)
             cid == vdev_draid_permute_id(c, p.base, p.iter,
                                          (c.vdc_children - 1) - t.vds[s].vds_spare_id)
         IN  IF k[cid].ops = "draid_spare"
             THEN IF t.sid[cid] \in seen \cup {s}
                  THEN [kind |-> "diverges", slot |-> cid, sub |-> 0]
                  ELSE vdev_draid_spare_get_child(c, k, t, t.sid[cid], physical_offset,
                                                  seen \cup {s})
             ELSE [kind |-> "child", slot |-> cid, sub |-> 0]

\* vdev_draid_faulted of the vdev in slot cid
vdev_draid_faulted(c, k, t, cid, physical_offset) ==
    LET r == vdev_draid_spare_get_child(c, k, t, t.sid[cid], physical_offset, {})
    IN  IF k[cid].ops = "draid_spare"
        THEN r.kind = "child" /\ vdev_parent_ops(k, r) \in {"replacing", "spare"}
        ELSE k[cid].ops \in {"replacing", "spare"}

\* vdev_draid_group_degraded
vdev_draid_group_degraded(v, c, k, t, offset) ==
    LET l2p == vdev_draid_logical_to_physical(v, c, offset)
        p == vdev_draid_get_perm(c, l2p.perm)
    IN  \E i \in 0..(c.vdc_groupwidth - 1) :
           vdev_draid_faulted(c, k, t,
               vdev_draid_permute_id(c, p.base, p.iter, (l2p.start + i) % c.vdc_ndisks),
               l2p.physical_offset)

\* vdev_draid_active_spares of the top-level vdev
vdev_draid_active_spares(k, t) ==
    Cardinality({i \in DOMAIN k : k[i].ops \in {"draid_spare", "spare"}})

\* vdev_draid_need_resilver
vdev_draid_need_resilver(v, c, k, t, offset, phys_birth, partial) ==
    IF c.vdc_nspares > 1 /\ vdev_draid_active_spares(k, t) > 1 THEN TRUE
    ELSE IF phys_birth = "TXG_UNKNOWN" THEN vdev_draid_group_degraded(v, c, k, t, offset)
    ELSE IF ~partial THEN FALSE
    ELSE vdev_draid_group_degraded(v, c, k, t, offset)

\* vdev_draid_spare_ioctl: the spare is a leaf, the flush loop runs over its
\* vdev_children = 0 children
vdev_draid_spare_ioctl(z) ==
    IF z.cmd = "DKIOCFLUSHWRITECACHE" THEN [err |-> "OK", cio |-> <<>>]
    ELSE [err |-> "ENOTSUP", cio |-> <<>>]

\* The branch of vdev_draid_spare_io_start for a READ, WRITE or TRIM outside
\* the labels: ok tells whether the resolved child can take the I/O
spare_child_io_unsupported(c, k, t, z, r, ok) ==
    IF r.kind = "diverges" THEN [err |-> "DIVERGES", cio |-> <<>>]
    ELSE IF r.kind = "NULL" \/ ~ok THEN [err |-> "ENOTSUP", cio |-> <<>>]
    ELSE [err |-> "OK",
          cio |-> <<[slot |-> r.slot, offset |-> z.offset - VDEV_LABEL_START_SIZE,
                     type |-> z.type]>>]

spare_child_io(c, k, t, z, r, ok) ==
    IF r.kind = "diverges" THEN [err |-> "DIVERGES", cio |-> <<>>]
    ELSE IF r.kind = "NULL" \/ ~ok THEN [err |-> "ENXIO", cio |-> <<>>]
    ELSE [err |-> "OK",
          cio |-> <<[slot |-> r.slot, offset |-> z.offset - VDEV_LABEL_START_SIZE,
                     type |-> z.type]>>]

\* The label-range I/Os vdev_draid_spare_io_start accepts: probe I/Os and
\* config writers for a write, probe I/Os for a read
label_write_accepted(flags) == flags \cap {"PROBE", "CONFIG_WRITER"} # {}

label_read_accepts_config(flags) == flags \cap {"PROBE", "CONFIG_WRITER"} # {}

label_read_accepted(flags) == "PROBE" \in flags

\* vdev_draid_spare_io_start of the zio z on distributed spare z.s
vdev_draid_spare_io_start(c, k, t, z) ==
    LET r == vdev_draid_spare_get_child(c, k, t, z.s, z.offset - VDEV_LABEL_START_SIZE, {})
        label == VDEV_OFFSET_IS_LABEL(t.vds[z.s].psize, z.offset)
    IN  IF ~t.vds[z.s].open THEN [err |-> "ENXIO", cio |-> <<>>]
        ELSE IF z.type = "IOCTL" THEN vdev_draid_spare_ioctl(z)
        ELSE IF z.type = "WRITE"
        THEN IF label
             THEN IF label_write_accepted(z.flags)
                  THEN [err |-> "OK", cio |-> <<>>]
                  ELSE [err |-> "EIO", cio |-> <<>>]
             ELSE spare_child_io(c, k, t, z, r, r.kind = "child" /\ k[r.slot].readable)
        ELSE IF z.type = "READ"
        THEN IF label
             THEN IF label_read_accepted(z.flags)
                  THEN [err |-> "OK", cio |-> <<>>]
                  ELSE [err |-> "EIO", cio |-> <<>>]
             ELSE spare_child_io(c, k, t, z, r, r.kind = "child" /\ k[r.slot].readable)
        ELSE IF z.type = "TRIM"
        THEN IF label THEN [err |-> "PANIC", cio |-> <<>>]
             ELSE spare_child_io(c, k, t, z, r, z.has_trim)
        ELSE [err |-> "ENOTSUP", cio |-> <<>>]

\* vdev_draid_spare_values: sscanf of "draid%llu-%llu-%llu" on vdev_path
vdev_draid_spare_values(path) == IF path.parsed THEN "OK" ELSE "EINVAL"

\* The checks of a first vdev_draid_spare_open.  The root vdev has two
\* children: top-level vdev 0 is the dRAID vdev, top-level vdev 1 is not.
spare_open_ignores_parity(c, path) ==
    IF vdev_draid_spare_values(path) # "OK" THEN "EINVAL"
    ELSE IF path.vdev_id >= 2 THEN "EINVAL"
    ELSE IF path.vdev_id # 0 \/ c = NoConfig THEN "EINVAL"
    ELSE IF c.vdc_nspares <= path.spare_id THEN "EINVAL"
    ELSE "OK"

spare_open_checks(c, path) ==
    IF vdev_draid_spare_values(path) # "OK" THEN "EINVAL"
    ELSE IF path.vdev_id >= 2 THEN "EINVAL"
    ELSE IF path.vdev_id # 0 \/ c = NoConfig THEN "EINVAL"
    ELSE IF c.vdc_nparity # path.parity \/ c.vdc_nspares <= path.spare_id THEN "EINVAL"
    ELSE "OK"

\* The names a distributed spare vdev is opened with: the name of a spare
\* of the pool, that name with one field changed, or one that does not parse
SparePaths ==
    {[parsed |-> FALSE, parity |-> 0, vdev_id |-> 0, spare_id |-> 0]}
        \cup {p \in [parsed : {TRUE}, parity : {vd.vdev_nparity, vd.vdev_nparity + 1},
                     vdev_id : 0..2, spare_id : 0..vd.vdev_nspares] :
                 /\ (p.parity = vd.vdev_nparity \/ p.vdev_id = 0)
                 /\ (p.parity = vd.vdev_nparity \/ p.spare_id < vd.vdev_nspares)
                 /\ (p.vdev_id = 0 \/ p.spare_id < vd.vdev_nspares)}

\* vdev_draid_spare_open of distributed spare vdev s, whose vdev_path is
\* path; ret tells whether vdev_tsd was NULL at the call (a first open)
SpareOpen(s, path) ==
    /\ s \in DOMAIN sp.vds
    /\ IF ~sp.vds[s].open /\ spare_open_checks(vdc, path) # "OK"
       THEN sp' = [sp EXCEPT !.res = [NoSpareRes EXCEPT !.op = "open", !.s = s,
                                         !.path = path, !.ret = TRUE, !.err = "EINVAL"]]
       ELSE sp' = [sp EXCEPT !.vds[s] =
                                 [open |-> TRUE,
                                  psize |-> calculate_asize(kids).asize
                                            + VDEV_LABEL_START_SIZE + VDEV_LABEL_END_SIZE,
                                  vds_spare_id |-> IF sp.vds[s].open
                                                   THEN sp.vds[s].vds_spare_id
                                                   ELSE path.spare_id],
                             !.res = [NoSpareRes EXCEPT !.op = "open", !.s = s,
                                         !.path = path, !.ret = ~sp.vds[s].open,
                                         !.err = "OK"]]
    /\ UNCHANGED <<vd, vdc, kids, opn>>

\* vdev_draid_spare_close outside a reopen
SpareClose(s) ==
    /\ s \in DOMAIN sp.vds
    /\ sp.vds[s].open
    /\ sp' = [sp EXCEPT !.vds[s] = ClosedSpare,
                        !.res = [NoSpareRes EXCEPT !.op = "close", !.s = s, !.err = "OK"]]
    /\ UNCHANGED <<vd, vdc, kids, opn>>

\* The offsets of the I/Os sent to a distributed spare: the first byte, the
\* start of the trailing labels, and the start of a slice of the data area
SpareOffsets(s) ==
    {0, sp.vds[s].psize - VDEV_LABEL_END_SIZE}
        \cup {VDEV_LABEL_START_SIZE + n * vdc.vdc_devslicesz : n \in 0..(vd.vdev_children - 1)}

\* vdev_draid_spare_io_start; has_trim is cvd->vdev_has_trim of the children
SpareIoStart(s, type, offset, flags, cmd, has_trim) ==
    LET z == [NoSpareRes EXCEPT !.op = "io_start", !.s = s, !.type = type,
                                !.offset = offset, !.flags = flags, !.cmd = cmd,
                                !.has_trim = has_trim]
        o == vdev_draid_spare_io_start(vdc, kids, sp, z)
    IN  /\ s \in DOMAIN sp.vds
        /\ sp.vds[s].open => offset \in SpareOffsets(s)
        /\ ~sp.vds[s].open => offset = 0
        /\ (type = "IOCTL") <=> (cmd # "NONE")
        /\ type \in {"IOCTL", "FREE"} => offset = 0
        /\ flags # {} => type \in {"WRITE", "READ"} /\ offset \in {0, sp.vds[s].psize - VDEV_LABEL_END_SIZE}
        /\ type = "TRIM" \/ ~has_trim
        /\ type = "TRIM" => ~VDEV_OFFSET_IS_LABEL(sp.vds[s].psize, offset)
        /\ sp' = [sp EXCEPT !.res = [z EXCEPT !.err = o.err, !.cio = o.cio]]
        /\ UNCHANGED <<vd, vdc, kids, opn>>

\* vdev_label_read_config of a distributed spare: vdev_draid_read_config_spare
\* builds the label configuration without any I/O
SpareReadConfig(s) ==
    /\ s \in DOMAIN sp.vds
    /\ sp' = [sp EXCEPT !.res = [NoSpareRes EXCEPT !.op = "read_config", !.s = s,
                                                    !.err = "OK"]]
    /\ UNCHANGED <<vd, vdc, kids, opn>>

\* vdev_draid_spare_get_child called for an offset of the spare
SpareGetChild(s, physical_offset) ==
    LET r == vdev_draid_spare_get_child(vdc, kids, sp, s, physical_offset, {})
    IN  /\ s \in DOMAIN sp.vds
        /\ sp' = [sp EXCEPT !.res = [NoSpareRes EXCEPT !.op = "get_child", !.s = s,
                                        !.offset = physical_offset, !.kind = r.kind,
                                        !.slot = r.slot, !.sub = r.sub,
                                        !.err = IF r.kind = "diverges" THEN "DIVERGES"
                                                ELSE "OK"]]
        /\ UNCHANGED <<vd, vdc, kids, opn>>

\* vdev_draid_need_resilver for a block of a group
NeedResilver(group, phys_birth, partial) ==
    /\ vdc # NoConfig
    /\ phys_birth = "TXG" \/ ~partial
    /\ sp' = [sp EXCEPT !.res =
                 [NoSpareRes EXCEPT !.op = "need_resilver",
                     !.offset = vdev_draid_group_to_offset(vdc, group),
                     !.birth = phys_birth, !.partial = partial, !.err = "OK",
                     !.ret = vdev_draid_need_resilver(vd, vdc, kids, sp,
                                 vdev_draid_group_to_offset(vdc, group),
                                 phys_birth, partial)]]
    /\ UNCHANGED <<vd, vdc, kids, opn>>

(***************************************************************************)
(* Specifications.                                                         *)
(***************************************************************************)
InitMap == MapIdle /\ ConfigIdle /\ geo = NoGeo /\ IoIdle

NextMap ==
    \/ \E children \in LookupInputs : \E oob \in OobEntries(children) :
          LookupMap(children, oob) /\ UNCHANGED <<cfgvars, geo, iovars>>
    \/ \E children \in 2..MaxChildren : \E nperms \in NpermsInputs :
          \E checksum \in ChecksumInputs(children, nperms) :
             \E rands \in RandStreams(children, nperms) :
                GenerateMap(children, checksum, nperms, rands)
                    /\ UNCHANGED <<cfgvars, geo, iovars>>
    \/ \E idx \in 1..(MaxChildren * MapNperms) : \E val \in {0, MaxChildren} :
          TamperMap(idx, val) /\ UNCHANGED <<cfgvars, geo, iovars>>
    \/ CheckMap /\ UNCHANGED <<cfgvars, geo, iovars>>

SpecMap == InitMap /\ [][NextMap]_vars

InitGeo == MapIdle /\ ConfigInit(AshiftInputs) /\ geo = NoGeo /\ IoIdle

NextGeo ==
    \/ \E psize \in PsizeInputs(vd) : Asize(psize)
    \/ AsizeToPsize
    \/ AsizeOfPsize
    \/ \E max_segment \in MaxSegmentInputs(vd) : MaxRebuildable(max_segment)

SpecGeo == InitGeo /\ [][NextGeo]_vars

InitOpen ==
    /\ MapIdle /\ geo = NoGeo /\ IoIdle
    /\ vd \in NvlistVdevs
    /\ vdc = NoConfig
    /\ \E f \in 0..Min(vd.vdev_children, 2) :
           kids = [c \in 0..(vd.vdev_children - 1) |-> ChildDisk(c < f)]
    /\ \E d \in BOOLEAN : opn = [NoOpen EXCEPT !.debug = d]
    /\ sp = NoSpare

NextOpen ==
    \/ \E rands \in SeedStreams(vd.vdev_children) :
          \E oob \in OobEntries(vd.vdev_children) :
             Open(rands, oob) /\ UNCHANGED <<mapvars, geo, iovars, sp>>
    \/ Close /\ UNCHANGED <<mapvars, geo, iovars, sp>>
    \/ Reopen /\ UNCHANGED <<mapvars, geo, iovars, sp>>
    \/ \E c \in 0..MaxChildren : ChildFault(c) /\ UNCHANGED <<mapvars, geo, iovars, sp>>

SpecOpen == InitOpen /\ [][NextOpen]_vars

\* A pool with distributed spares: the top-level vdev is open and every
\* spare of the pool is open, or nothing is open yet
InitSpare ==
    /\ MapIdle /\ geo = NoGeo /\ IoIdle
    /\ opn = NoOpen
    /\ vd \in SpareVdevs
    /\ \E built \in BOOLEAN :
        /\ \E rands \in {r \in SeedStreams(vd.vdev_children) : r[1] = 1} :
               vdc = IF built THEN vdev_draid_config_create(vd, rands) ELSE NoConfig
        /\ \E a \in Arrangements(vd) :
               /\ built \/ \A i \in DOMAIN a : a[i].ops = "disk"
               /\ kids = [i \in 0..(vd.vdev_children - 1) |->
                             [ChildDisk(FALSE) EXCEPT !.ops = a[i].ops, !.open = built]]
               /\ sp = [sid |-> [i \in 0..(vd.vdev_children - 1) |-> a[i].sid],
                        vds |-> [s \in 0..(vd.vdev_nspares - 1) |->
                                    IF built
                                    THEN [open |-> TRUE,
                                          psize |-> calculate_asize(kids).asize
                                              + VDEV_LABEL_START_SIZE + VDEV_LABEL_END_SIZE,
                                          vds_spare_id |-> s]
                                    ELSE ClosedSpare],
                        res |-> NoSpareRes]

NextSpare ==
    \/ \E s \in 0..1 :
          \E path \in SparePaths :
             SpareOpen(s, path) /\ UNCHANGED <<mapvars, geo, iovars>>
    \/ \E s \in 0..1 : SpareClose(s) /\ UNCHANGED <<mapvars, geo, iovars>>
    \/ \E s \in 0..1 : \E type \in {"READ", "WRITE", "TRIM", "IOCTL", "FREE"} :
          \E offset \in IF s \in DOMAIN sp.vds /\ sp.vds[s].open THEN SpareOffsets(s) ELSE {0} :
             \E flags \in IF type \in {"READ", "WRITE"}
                          THEN {{}, {"PROBE"}, {"CONFIG_WRITER"}} ELSE {{}} :
                \E cmd \in IF type = "IOCTL" THEN {"DKIOCFLUSHWRITECACHE", "DKIOCOTHER"}
                           ELSE {"NONE"} :
                   \E has_trim \in IF type = "TRIM" THEN BOOLEAN ELSE {FALSE} :
                      SpareIoStart(s, type, offset, flags, cmd, has_trim)
                          /\ UNCHANGED <<mapvars, geo, iovars>>
    \/ \E s \in 0..1 : SpareReadConfig(s) /\ UNCHANGED <<mapvars, geo, iovars>>
    \/ \E s \in 0..1 : \E n \in 0..(vd.vdev_children - 1) :
          SpareGetChild(s, n * vdc.vdc_devslicesz) /\ UNCHANGED <<mapvars, geo, iovars>>
    \/ \E group \in 0..MaxGroup : \E phys_birth \in {"TXG_UNKNOWN", "TXG"} :
          \E partial \in BOOLEAN :
             NeedResilver(group, phys_birth, partial) /\ UNCHANGED <<mapvars, geo, iovars>>

SpecSpare == InitSpare /\ [][NextSpare]_vars

\* The states of a leaf child at the time of a read: vdev_readable and
\* vdev_dtl_contains(DTL_MISSING) of the zio's txg
ChildStates == {[ops |-> "disk", readable |-> r, dtl_missing |-> d] : r, d \in BOOLEAN}

\* The number of children of a pool that are unreadable or stale
MaxFaulted == 2

\* An opened top-level dRAID vdev whose children may be unreadable or stale:
\* a pool of ValidVdevs without distributed spares and with the least number
\* of groups, or the single-parity pool of MaxChildren + 1 children whose
\* one group spans them all
InitRead ==
    /\ MapIdle
    /\ opn = NoOpen
    /\ sp = NoSpare
    /\ vd \in {v \in ValidVdevs({12}) :
                   /\ v.vdev_nspares = 0
                   /\ \A n \in NgroupsInputs(v.vdev_ndata + v.vdev_nparity, v.vdev_children) :
                          v.vdev_ngroups <= n} \cup
                {[vdev_ashift |-> 12, vdev_children |-> MaxChildren + 1, vdev_nparity |-> 1,
                  vdev_ndata |-> MaxChildren, vdev_nspares |-> 0, vdev_ngroups |-> 1]}
    /\ vdc = vdev_draid_config_create(vd, [p \in 1..(MapNperms * (vd.vdev_children - 1)) |-> 1])
    /\ kids \in [0..(vd.vdev_children - 1) -> ChildStates]
    /\ Cardinality({i \in DOMAIN kids : kids[i] # HealthyDisk}) <= MaxFaulted
    /\ geo = NoGeo
    /\ IoIdle

NextRead ==
    \/ \E nsect \in 1..MaxSectors : IoStartWrite(0, 0, nsect)
    \/ \E flags \in {{}, {"SCRUB"}, {"RESILVER"}} : IoStartRead(flags)
    \/ ChildIosDone
    \/ IncludeSkipSectors

SpecRead == InitRead /\ [][NextRead]_vars

\* A top-level dRAID vdev after its first vdev_draid_open: the children are
\* disks of ChildRows rows, child 0 possibly one row shorter
InitPlace ==
    /\ MapIdle /\ geo = NoGeo /\ IoIdle
    /\ sp = NoSpare
    /\ vd \in ValidVdevs({12})
    /\ vdc = vdev_draid_config_create(vd, [p \in 1..(MapNperms * (vd.vdev_children - 1)) |-> 1])
    /\ \E short \in 0..1 :
           LET t == open_tail(TRUE, vdc,
                        [c \in 0..(vd.vdev_children - 1) |->
                            [ChildDisk(FALSE) EXCEPT !.vdev_asize =
                                IF c = 0 THEN @ - short * VDEV_DRAID_ROWSIZE ELSE @]],
                        NoOpen)
           IN  /\ kids = t.kids
               /\ opn = [t.opn EXCEPT !.obj = 1, !.live = 1]

NextPlace ==
    \/ \E group \in 0..MaxGroup : \E row \in RowInputs(vd) : \E nsect \in 1..MaxSectors :
          IoStartWrite(group, row, nsect)
    \/ \E flags \in {{}, {"SCRUB"}, {"RESILVER"}} : IoStartRead(flags)
    \/ ChildIosDone

SpecPlace == InitPlace /\ [][NextPlace]_vars

Init == MapIdle /\ ConfigInit({12}) /\ geo = NoGeo /\ IoIdle

Next ==
    \/ \E group \in 0..MaxGroup : \E row \in RowInputs(vd) : \E nsect \in 1..MaxSectors :
          IoStartWrite(group, row, nsect)
    \/ \E flags \in {{}, {"SCRUB"}, {"RESILVER"}} : IoStartRead(flags)
    \/ ChildIosDone
    \/ \E cid \in 0..(MaxChildren - 1) : Xlate(cid)

Spec == Init /\ [][Next]_vars

(***************************************************************************)
(* Properties.                                                             *)
(***************************************************************************)
\* Row i of a map holds every child index below dm_children exactly once
RowIsPermutation(m, i) ==
    /\ {m.dm_perms[i * m.dm_children + j] : j \in 1..m.dm_children} = 0..(m.dm_children - 1)
    /\ Len(m.dm_perms) = m.dm_children * m.dm_nperms
AllRowsPermutations(m) == \A i \in 0..(m.dm_nperms - 1) : RowIsPermutation(m, i)

\* The (q, r, bc) decomposition of the zio in flight
IoSectors == zio.io_size \div (2 ^ vd.vdev_ashift)
IoQ == IoSectors \div vdc.vdc_ndata
IoR == IoSectors - IoQ * vdc.vdc_ndata
IoBc == IF IoR = 0 THEN 0 ELSE IoR + vdc.vdc_nparity
IoCols == IF IoQ = 0 THEN IoBc ELSE vdc.vdc_groupwidth
IoGroup == zio.io_offset \div (vdc.vdc_groupwidth * VDEV_DRAID_ROWSIZE)
IoPerm == IoGroup \div vdc.vdc_ngroups
IoStart == (IoGroup * vdc.vdc_groupwidth) % vdc.vdc_ndisks

\* Bytes of zio->io_abd that column i maps: its real data
RealData(i) ==
    SumSeq([k \in DOMAIN rm.rm_col[i].rc_abd |->
               IF rm.rm_col[i].rc_abd[k].src = "io" THEN rm.rm_col[i].rc_abd[k].len ELSE 0])

\* C1: on a healthy pool a normal read of a block returns the bytes the write
\* of that block stored: every sector of the read buffer holds the sector
\* of the written buffer with the same index.
Thm_C1_WriteReadRoundTrip ==
    (zio.io_type = "READ" /\ zio.stage = "done" /\ zio.io_flags = {}) =>
        /\ rbuf = [n \in 1..IoSectors |-> DataSector(n - 1)]
        /\ Len(cios) = rm.rm_cols - rm.rm_firstdatacol

Wit_C1_WriteReadRoundTrip ==
    /\ zio.io_type = "READ" /\ zio.stage = "done" /\ zio.io_flags = {}
    /\ vdc.vdc_ndata = 2 /\ IoSectors = 3
    /\ zio.io_offset % (vdc.vdc_groupwidth * VDEV_DRAID_ROWSIZE) > 0

\* C2: the child index of every column of a group is below children, and
\* the groupwidth child indices of one group are pairwise distinct.
Thm_C2_GroupChildrenDistinct ==
    zio.stage # "none" =>
        /\ \A i \in 0..(vdc.vdc_groupwidth - 1) :
               rm.rm_col[i].rc_devidx \in 0..(vdc.vdc_children - 1)
        /\ \A i, j \in 0..(vdc.vdc_groupwidth - 1) :
               i # j => rm.rm_col[i].rc_devidx # rm.rm_col[j].rc_devidx

Wit_C2_GroupChildrenDistinct ==
    /\ zio.stage # "none"
    /\ IoPerm > vdc.vdc_children
    /\ IoPerm % vdc.vdc_children > 0
    /\ vdc.vdc_nspares > 0

\* C3: every row of a generated table is a permutation of 0..children-1
\* whatever the PRNG returns, so generation never fails with EINVAL.
Thm_C3_GeneratedRowsArePermutations ==
    (chk.err # "none" /\ ~chk.rerun) =>
        /\ AllRowsPermutations(chk.m)
        /\ chk.err # "EINVAL"
        /\ gerr # "EINVAL"

Wit_C3_GeneratedRowsArePermutations ==
    /\ gerr = "OK" /\ ~chk.rerun /\ tampered = 0
    /\ map.dm_children = 3 /\ map.dm_nperms = 2
    /\ SubSeq(map.dm_perms, 1, 3) # <<0, 1, 2>>
    /\ SubSeq(map.dm_perms, 4, 6) # SubSeq(map.dm_perms, 1, 3)

\* C4: check_map returns EINVAL exactly when some row is not a permutation;
\* when all rows are permutations it returns ECKSUM iff the recorded
\* checksum is non-zero and differs from the computed one, else success.
Thm_C4_CheckMapVerdict ==
    chk.err # "none" =>
        /\ (chk.err = "EINVAL") <=> ~AllRowsPermutations(chk.m)
        /\ AllRowsPermutations(chk.m) =>
               ((chk.err = "ECKSUM") <=>
                   (chk.m.dm_checksum # 0 /\
                    chk.m.dm_checksum # map_checksum(chk.m.dm_perms)))
        /\ chk.err \in {"EINVAL", "ECKSUM", "OK"}

Wit_C4_CheckMapVerdict ==
    /\ chk.rerun /\ chk.err = "EINVAL" /\ tampered # 0 /\ chk.m = map
    /\ map.dm_perms[tampered] < map.dm_children
    /\ map.dm_nperms = 2 /\ tampered > map.dm_children

\* C5 as stated: check_map on a map with one byte changed reports ECKSUM.
Cex_C5_TamperReportsChecksum ==
    (chk.rerun /\ tampered # 0 /\ chk.m = map /\ map.dm_checksum # 0) =>
        chk.err = "ECKSUM"

\* C5 amended: check_map on a successfully generated map (recorded checksum
\* non-zero) with one byte changed to a different value reports EINVAL: the
\* changed row is no longer a permutation and the row check runs first.
Thm_C5_TamperReportsInvalid ==
    (chk.rerun /\ tampered # 0 /\ chk.m = map /\ map.dm_checksum # 0) =>
        chk.err = "EINVAL"

Wit_C5_TamperReportsInvalid ==
    /\ chk.rerun /\ tampered # 0 /\ chk.m = map /\ map.dm_checksum # 0
    /\ chk.m.dm_checksum # map_checksum(chk.m.dm_perms)

\* C6 as stated: lookup succeeds with the frozen entry for children in
\* 2..255, returns ENOENT otherwise, and never examines an index past the
\* end of the table.
Cex_C6_LookupIsBoundsCheck ==
    lres.err # "none" =>
        /\ lres.children \in 2..255 =>
               /\ lres.err = "OK"
               /\ lres.seed = <<"seed", lres.children>>
               /\ lres.checksum = <<"checksum", lres.children>>
               /\ lres.nperms = 256
        /\ lres.children \notin 2..255 => lres.err = "ENOENT"
        /\ lres.last <= VDEV_DRAID_MAX_MAPS - 1

\* C7: column i of the row map sits at permutation position
\* (g * groupwidth + i) mod ndisks of permutation g / ngroups and at child
\* offset (floor((g * groupwidth + i) / ndisks) * blocks_per_row +
\* b / groupwidth) sectors: on row_within_perm before the wrap column and
\* exactly one row further from it on.
Thm_C7_ColumnPlacement ==
    zio.stage # "none" =>
        LET unit == 2 ^ vd.vdev_ashift
            bpr == VDEV_DRAID_ROWSIZE \div unit
            gw == vdc.vdc_groupwidth
            nd == vdc.vdc_ndisks
            g == IoGroup
            b == (zio.io_offset \div unit) % (bpr * gw)
            m == vdc.vdc_map
            rowidx == (IoPerm \div vdc.vdc_children) % m.dm_nperms
            iter == IoPerm % vdc.vdc_children
            row_within_perm ==
                ((IoPerm * gw * vdc.vdc_ngroups) + ((g % vdc.vdc_ngroups) * gw)) \div nd
        IN  \A i \in 0..(gw - 1) :
               /\ rm.rm_col[i].rc_devidx =
                      (m.dm_perms[rowidx * vdc.vdc_children + ((g * gw + i) % nd) + 1] + iter)
                          % vdc.vdc_children
               /\ rm.rm_col[i].rc_offset =
                      ((((g * gw + i) \div nd) * bpr) + (b \div gw)) * unit
               /\ rm.rm_col[i].rc_offset =
                      ((row_within_perm * bpr) + (b \div gw)) * unit +
                          (IF i < nd - IoStart THEN 0 ELSE VDEV_DRAID_ROWSIZE)

Wit_C7_ColumnPlacement ==
    /\ zio.stage # "none"
    /\ IoStart + vdc.vdc_groupwidth > vdc.vdc_ndisks
    /\ IoGroup > vdc.vdc_ngroups
    /\ zio.io_offset % (vdc.vdc_groupwidth * VDEV_DRAID_ROWSIZE) > 0

\* ceil(a / b) over the naturals
CeilDiv(a, b) == (a + b - 1) \div b

Cex_C9_MaxRebuildableBounded ==
    geo.op = "max_rebuildable" =>
        LET p == vdev_draid_asize_to_psize(vdc, geo.res)
        IN  /\ geo.res # U64Zero
            /\ U64ModSmall(p, vdc.vdc_ndata * (2 ^ vd.vdev_ashift)) = 0
            /\ U64Le(p, U64FromNat(SPA_MAXBLOCKSIZE))

\* C10 as stated: for every I/O the row map has scols = groupwidth,
\* cols = (q == 0 ? bc : groupwidth), first_data_col = nparity and
\* bc < groupwidth; column i carries q+1 sectors below bc, q sectors from bc
\* to cols and none from cols to scols; the real sizes of the data columns
\* sum to the I/O size.
ColumnSectors(i) ==
    IF i >= IoCols THEN 0 ELSE IF i < IoBc THEN IoQ + 1 ELSE IoQ

ColumnsCarry ==
    /\ rm.rm_scols = vdc.vdc_groupwidth
    /\ rm.rm_firstdatacol = vdc.vdc_nparity
    /\ rm.rm_bigcols = IoBc
    /\ IoBc < vdc.vdc_groupwidth
    /\ rm.rm_nskip = (IF IoR = 0 THEN 0 ELSE vdc.vdc_groupwidth - IoBc)
    /\ \A i \in 0..(vdc.vdc_nparity - 1) :
           rm.rm_col[i].rc_size = ColumnSectors(i) * (2 ^ vd.vdev_ashift)
    /\ \A i \in vdc.vdc_nparity..(vdc.vdc_groupwidth - 1) :
           RealData(i) = ColumnSectors(i) * (2 ^ vd.vdev_ashift)
    /\ SumSeq([k \in 1..vdc.vdc_ndata |-> RealData(vdc.vdc_nparity + k - 1)]) = zio.io_size

Cex_C10_ColsForEveryIo ==
    zio.stage # "none" => (ColumnsCarry /\ rm.rm_cols = IoCols)

\* C10 amended: scols, first_data_col, bc and the sectors carried are as
\* stated for every I/O; cols = (q == 0 ? bc : groupwidth) in the row map
\* of a normal read, while the write layout and the scrub layout leave
\* cols = scols in the row map.
Thm_C10_ColsAfterLayout ==
    zio.stage # "none" =>
        /\ ColumnsCarry
        /\ rm.rm_cols =
               (IF zio.io_type = "WRITE" \/
                   (rm.rm_nskip > 0 /\ zio.io_flags \cap {"SCRUB", "RESILVER"} # {})
                THEN rm.rm_scols ELSE IoCols)

Wit_C10_ColsAfterLayout ==
    /\ zio.stage # "none" /\ zio.io_type = "WRITE"
    /\ IoQ = 0 /\ vdc.vdc_ndata = 2
    /\ rm.rm_cols = vdc.vdc_groupwidth /\ IoCols < vdc.vdc_groupwidth

\* C11 as stated: rm_asize = total_sectors * unit with total_sectors =
\* psize_sectors + nparity * (q + (r == 0 ? 0 : 1)).
IoTot == IoSectors + vdc.vdc_nparity * (IoQ + (IF IoR = 0 THEN 0 ELSE 1))

Cex_C11_AsizeIsTotal ==
    zio.stage # "none" => rm.rm_asize = IoTot * (2 ^ vd.vdev_ashift)

\* C11 amended: rm_asize is total_sectors rounded up to a whole number of
\* stripe rows, (total_sectors + nskip) * unit; it equals total_sectors *
\* unit exactly when r = 0.
Thm_C11_AsizeIsRoundedTotal ==
    zio.stage # "none" =>
        /\ rm.rm_asize = (IoQ + (IF IoR = 0 THEN 0 ELSE 1)) * vdc.vdc_groupwidth
                             * (2 ^ vd.vdev_ashift)
        /\ rm.rm_asize = (IoTot + rm.rm_nskip) * (2 ^ vd.vdev_ashift)
        /\ rm.rm_nskip < vdc.vdc_ndata
        /\ (rm.rm_asize = IoTot * (2 ^ vd.vdev_ashift)) <=> (IoR = 0)

Wit_C11_AsizeIsRoundedTotal ==
    /\ zio.stage # "none" /\ zio.io_type = "READ" /\ zio.io_flags = {}
    /\ IoQ = 1 /\ IoR = 1 /\ vdc.vdc_nparity = 1
    /\ rm.rm_asize = 6 * (2 ^ vd.vdev_ashift)

\* Size of the buffer of column i
BufSize(i) == abd_get_size(rm.rm_col[i].rc_abd)

\* C12 as stated: after layout in each of the three modes every populated
\* column (index < cols) has a buffer of size parity_size, the size of
\* parity column 0.
Cex_C12_PopulatedBuffersEqual ==
    zio.stage # "none" =>
        \A i \in 0..(rm.rm_cols - 1) : BufSize(i) = rm.rm_col[0].rc_size

\* C12 amended: after the write layout and the scrub layout every column
\* below cols = scols has a buffer of size parity_size; after the normal
\* read layout the parity columns and the big columns have parity_size and
\* a short data column (bc <= i < cols, r > 0) has parity_size less one
\* sector.
Thm_C12_BuffersAfterLayout ==
    zio.stage # "none" =>
        LET parity_size == rm.rm_col[0].rc_size
            padded == zio.io_type = "WRITE" \/
                      (rm.rm_nskip > 0 /\ zio.io_flags \cap {"SCRUB", "RESILVER"} # {})
        IN  /\ parity_size =
                   (IF IoR = 0 THEN IoQ ELSE IoQ + 1) * (2 ^ vd.vdev_ashift)
            /\ \A i \in 0..(rm.rm_cols - 1) :
                   BufSize(i) =
                       (IF padded \/ IoR = 0 \/ i < IoBc THEN parity_size
                        ELSE parity_size - (2 ^ vd.vdev_ashift))

Wit_C12_BuffersAfterLayout ==
    /\ zio.stage # "none" /\ zio.io_type = "READ" /\ zio.io_flags = {}
    /\ IoQ = 1 /\ IoR = 1
    /\ BufSize(rm.rm_cols - 1) < rm.rm_col[0].rc_size

\* C13: a write generates parity before it issues any child write, then
\* issues exactly scols = groupwidth child writes, column by column, each
\* of size parity_size at the column's child and offset; no column is left
\* out and no child receives two writes of the stripe.
Thm_C13_WriteIssuesEveryColumn ==
    (zio.io_type = "WRITE" /\ zio.stage # "none") =>
        /\ rm.rm_cols = rm.rm_scols
        /\ Len(cios) = vdc.vdc_groupwidth
        /\ \A k \in DOMAIN cios :
               /\ cios[k].col = k - 1
               /\ cios[k].type = "WRITE"
               /\ cios[k].cvd = rm.rm_col[k - 1].rc_devidx
               /\ cios[k].offset = rm.rm_col[k - 1].rc_offset
               /\ cios[k].size = rm.rm_col[0].rc_size
               /\ abd_get_size(cios[k].abd) = cios[k].size
        /\ \A j, k \in DOMAIN cios : j # k => cios[j].cvd # cios[k].cvd
        /\ Cardinality({k \in DOMAIN calls : calls[k] = "zio_vdev_child_io"})
               = vdc.vdc_groupwidth
        /\ \E g \in DOMAIN calls :
               /\ calls[g] = "vdev_raidz_generate_parity"
               /\ \A k \in DOMAIN calls : calls[k] = "zio_vdev_child_io" => g < k

Wit_C13_WriteIssuesEveryColumn ==
    /\ zio.io_type = "WRITE" /\ zio.stage = "done"
    /\ IoSectors = 1 /\ vdc.vdc_ndata = 2
    /\ \E e \in stripe.sectors : e.val = ZeroSector

\* The constraints on a dRAID configuration
ValidConfig(v) ==
    /\ v.vdev_nparity \in 1..3
    /\ v.vdev_children >= v.vdev_nparity + 1
    /\ v.vdev_children <= 255
    /\ v.vdev_ndata + v.vdev_nparity <= v.vdev_children - v.vdev_nspares
    /\ ((v.vdev_ndata + v.vdev_nparity) * v.vdev_ngroups)
           % (v.vdev_children - v.vdev_nspares) = 0

\* Children whose open failed in the last open
OpenFailed == Cardinality({c \in DOMAIN kids : kids[c].vdev_open_error = "ENXIO"})

\* C14 as stated: open succeeds iff at most nparity children failed to
\* open, which is the same as children - open_failed >= ndata + nparity;
\* otherwise it fails with NoReplicas.
Cex_C14_OpenToleratesNparity ==
    (opn.err \in {"OK", "ENXIO"} /\ ValidConfig(vd)) =>
        /\ (opn.err = "OK") <=> (OpenFailed <= vd.vdev_nparity)
        /\ (OpenFailed <= vd.vdev_nparity) <=>
               (vd.vdev_children - OpenFailed >= vd.vdev_ndata + vd.vdev_nparity)
        /\ opn.err = "ENXIO" => opn.aux = "NO_REPLICAS"

\* C14 amended: open of a valid configuration succeeds iff at most nparity
\* children failed to open and fails with NoReplicas (ENXIO, aux
\* NO_REPLICAS) otherwise, keeping the configuration; the count is not
\* compared with ndata + nparity.
Thm_C14_OpenFailsOverNparity ==
    (opn.err \in {"OK", "ENXIO"} /\ ValidConfig(vd)) =>
        /\ (opn.err = "OK") <=> (OpenFailed <= vd.vdev_nparity)
        /\ (opn.err = "ENXIO") <=> (OpenFailed > vd.vdev_nparity)
        /\ opn.err = "ENXIO" => opn.aux = "NO_REPLICAS"
        /\ opn.nopened = vd.vdev_children
        /\ vdc # NoConfig

Wit_C14_OpenFailsOverNparity ==
    /\ opn.err = "OK" /\ ValidConfig(vd) /\ OpenFailed = 1
    /\ vd.vdev_children - OpenFailed < vd.vdev_ndata + vd.vdev_nparity

\* C15 as stated: a first open of a configuration that violates one of the
\* constraints fails with EINVAL, opens no child and leaves vdev_tsd NULL.
Cex_C15_InvalidConfigRejected ==
    (opn.first /\ opn.err \in {"OK", "ENXIO", "EINVAL", "PANIC", "UNDEFINED"}
        /\ ~ValidConfig(vd)) =>
        /\ opn.err = "EINVAL"
        /\ opn.nopened = 0
        /\ \A c \in DOMAIN kids : ~kids[c].open
        /\ vdc = NoConfig

\* C17: for every write stripe and every column c, vdev_draid_xlate of
\* child[rc_devidx] and the logical range [io_offset, io_offset +
\* asize(io_size)) is exactly [rc_offset, rc_offset + rc_size), the check of
\* vdev_draid_io_verify; for a child that holds no column of the group the
\* range returned is empty.
Thm_C17_XlateMatchesColumns ==
    zio.io_type = "WRITE" =>
        /\ Len(xl.verify) = rm.rm_scols
        /\ \A k \in DOMAIN xl.verify :
               /\ xl.verify[k].ok
               /\ xl.verify[k].rs_start = rm.rm_col[xl.verify[k].col].rc_offset
               /\ xl.verify[k].rs_end = rm.rm_col[xl.verify[k].col].rc_offset
                                            + rm.rm_col[xl.verify[k].col].rc_size
        /\ {xl.verify[k].col : k \in DOMAIN xl.verify} = 0..(rm.rm_scols - 1)
        /\ xl.called =>
               IF \E i \in 0..(rm.rm_scols - 1) : rm.rm_col[i].rc_devidx = xl.cid
               THEN \E i \in 0..(rm.rm_scols - 1) :
                       /\ rm.rm_col[i].rc_devidx = xl.cid
                       /\ xl.rs_start = rm.rm_col[i].rc_offset
                       /\ xl.rs_end = rm.rm_col[i].rc_offset + rm.rm_col[i].rc_size
               ELSE xl.rs_end = xl.rs_start

Wit_C17_XlateMatchesColumns ==
    /\ zio.io_type = "WRITE"
    /\ xl.called
    /\ \A i \in 0..(rm.rm_scols - 1) : rm.rm_col[i].rc_devidx # xl.cid
    /\ xl.rs_end = xl.rs_start
    /\ \E k \in DOMAIN xl.verify :
           /\ xl.verify[k].rs_start > xl.verify[1].rs_start
           /\ xl.verify[k].rs_end > xl.verify[k].rs_start + (2 ^ vd.vdev_ashift)

\* The vdev in slot cid resolves, at physical_offset, to a vdev that is or
\* sits under a replacing or sparing vdev
ResolvesToFaulted(cid, physical_offset) ==
    LET r == vdev_draid_spare_get_child(vdc, kids, sp, sp.sid[cid], physical_offset, {})
    IN  IF kids[cid].ops = "draid_spare"
        THEN r.kind = "child" /\ kids[r.slot].ops \in {"replacing", "spare"}
        ELSE kids[cid].ops \in {"replacing", "spare"}

\* At least one column of the group of offset resolves to such a vdev
GroupDegraded(offset) ==
    LET l2p == vdev_draid_logical_to_physical(vd, vdc, offset)
        p == vdev_draid_get_perm(vdc, l2p.perm)
    IN  \E i \in 0..(vdc.vdc_groupwidth - 1) :
           ResolvesToFaulted(
               vdev_draid_permute_id(vdc, p.base, p.iter, (l2p.start + i) % vdc.vdc_ndisks),
               l2p.physical_offset)

\* Distributed spares present in the vdev tree
SparesInTree == Cardinality({i \in DOMAIN sp.sid : sp.sid[i] < vd.vdev_nspares})

\* C16 as stated: need_resilver is true iff (nspares > 1 and more than one
\* distributed spare is in the tree) or (phys_birth unknown and the group is
\* degraded) or (phys_birth known, DTL partial and the group degraded), a
\* group being degraded iff a column resolves to a child that is or sits
\* under a replacing or sparing vdev.
Cex_C16_NeedResilverDegraded ==
    sp.res.op = "need_resilver" =>
        (sp.res.ret <=>
            \/ vd.vdev_nspares > 1 /\ SparesInTree > 1
            \/ sp.res.birth = "TXG_UNKNOWN" /\ GroupDegraded(sp.res.offset)
            \/ sp.res.birth = "TXG" /\ sp.res.partial /\ GroupDegraded(sp.res.offset))

\* C18 as stated: for an open distributed spare s and every offset below its
\* usable size, vdev_draid_spare_get_child returns parent.child[(base[children
\* - 1 - s] + iter) mod children] with (base, iter) = get_perm(offset /
\* slice size), recursing while that child is a distributed spare; for every
\* arrangement of the spares the recursion terminates and yields a child
\* that is not a distributed spare.
Cex_C18_GetChildTerminates ==
    (/\ sp.res.op = "get_child"
     /\ sp.vds[sp.res.s].open
     /\ sp.res.offset < sp.vds[sp.res.s].psize
                            - (VDEV_LABEL_START_SIZE + VDEV_LABEL_END_SIZE)) =>
        /\ sp.res.kind = "child"
        /\ kids[sp.res.slot].ops # "draid_spare"
        /\ \E s \in DOMAIN sp.vds :
               /\ sp.res.slot =
                      (vdc.vdc_map.dm_perms[
                           vdev_draid_get_perm(vdc, sp.res.offset \div vdc.vdc_devslicesz).base
                               + (vd.vdev_children - 1 - sp.vds[s].vds_spare_id) + 1]
                         + vdev_draid_get_perm(vdc, sp.res.offset \div vdc.vdc_devslicesz).iter)
                        % vd.vdev_children
               /\ s = sp.res.s \/ \E i \in DOMAIN kids :
                                      kids[i].ops = "draid_spare" /\ sp.sid[i] = s

\* The last call was vdev_draid_spare_io_start on an open distributed spare
SpareIo == sp.res.op = "io_start" /\ sp.vds[sp.res.s].open

\* The offset of the last zio lies in the leading or the trailing labels
SpareIoInLabel ==
    \/ sp.res.offset < 2 ^ 22
    \/ sp.res.offset >= sp.vds[sp.res.s].psize - 2 ^ 19

SpareIoChild ==
    vdev_draid_spare_get_child(vdc, kids, sp, sp.res.s, sp.res.offset - 2 ^ 22, {})

Thm_C21_SpareOpenValidation ==
    (sp.res.op = "open" /\ sp.res.ret) =>
        IF \/ ~sp.res.path.parsed
           \/ sp.res.path.vdev_id > 1
           \/ sp.res.path.vdev_id = 1
           \/ vdc = NoConfig
           \/ sp.res.path.parity # vd.vdev_nparity
           \/ sp.res.path.spare_id >= vd.vdev_nspares
        THEN sp.res.err = "EINVAL" /\ sp.vds[sp.res.s] = ClosedSpare
        ELSE /\ sp.res.err = "OK"
             /\ sp.vds[sp.res.s].open
             /\ sp.vds[sp.res.s].vds_spare_id = sp.res.path.spare_id

Wit_C21_SpareOpenValidation ==
    /\ sp.res.op = "open" /\ sp.res.ret
    /\ sp.res.path.parsed /\ sp.res.path.vdev_id = 0 /\ vdc # NoConfig
    /\ sp.res.path.spare_id < vd.vdev_nspares
    /\ sp.res.path.parity # vd.vdev_nparity
    /\ sp.res.err = "EINVAL" /\ ~sp.vds[sp.res.s].open

\* C22: the configuration is created only by an open that finds vdev_tsd
\* NULL, a reopen keeps the same allocation with the same contents, only a
\* close outside a reopen frees it and clears vdev_tsd, and at every moment
\* exactly the configuration vdev_tsd points to is allocated.
Thm_C22_ConfigLifecycle ==
    /\ [](opn.live = IF vdc = NoConfig THEN 0 ELSE 1)
    /\ [][/\ (vdc = NoConfig /\ vdc' # NoConfig) =>
               (opn'.first /\ opn'.err \in {"OK", "ENXIO"} /\ opn'.live = opn.live + 1
                    /\ opn'.obj # opn.obj)
          /\ (vdc # NoConfig /\ vdc' # NoConfig) => (vdc' = vdc /\ opn'.obj = opn.obj)
          /\ (vdc # NoConfig /\ vdc' = NoConfig) =>
               (opn'.err = "closed" /\ opn'.live = opn.live - 1)
          /\ (opn.err \in {"OK", "ENXIO"} /\ opn'.err = "closed") => vdc' = NoConfig
          /\ (opn'.err \in {"OK", "ENXIO"} /\ ~opn'.first) => vdc' = vdc]_vars

\* A second configuration that went through a failing reopen and was closed
Wit_C22_ConfigLifecycle ==
    opn.err = "closed" /\ ~opn.first /\ opn.aux = "NO_REPLICAS" /\ opn.obj = 0
        /\ vdc = NoConfig /\ opn.live = 0
\* The populated columns of the row map of the read in flight, the child of a
\* column, and the child I/O issued for a column
RmCols == 0..(rm.rm_cols - 1)
ColDev(c) == kids[rm.rm_col[c].rc_devidx]
ColCurrent(c) == ColDev(c).readable /\ ~ColDev(c).dtl_missing
ColIssued(c) == \E k \in DOMAIN cios : cios[k].col = c
ColIsData(c) == c >= rm.rm_firstdatacol
ReadStarted == zio.io_type = "READ" /\ zio.stage = "issued"
NormalRead == zio.io_flags \cap {"SCRUB", "RESILVER"} = {}

\* C23: the child reads are issued in descending column order; a normal read
\* reads every readable, non-stale data column and reads a readable,
\* non-stale parity column iff some data column is unreadable or stale; a
\* scrub or resilver read reads every readable, non-stale column of the
\* expanded map.
Thm_C23_ReadColumnChoice ==
    ReadStarted =>
        /\ \A i, j \in DOMAIN cios : i < j => cios[i].col > cios[j].col
        /\ IF NormalRead
           THEN \A c \in RmCols :
                    ColIssued(c) <=>
                        /\ ColCurrent(c)
                        /\ ColIsData(c) \/ \E d \in RmCols : ColIsData(d) /\ ~ColCurrent(d)
           ELSE /\ rm.rm_cols = rm.rm_scols
                /\ \A c \in RmCols : ColIssued(c) <=> ColCurrent(c)

\* A normal read that reads a parity column because a data column is stale
Wit_C23_ReadColumnChoice ==
    /\ ReadStarted /\ NormalRead
    /\ \E c, d \in RmCols :
           /\ ~ColIsData(c) /\ ColIssued(c)
           /\ ColIsData(d) /\ ColDev(d).readable /\ ColDev(d).dtl_missing /\ ~ColIssued(d)

\* C24 as stated: every populated column is issued when its child is readable
\* and current and is skipped with ENXIO or ESTALE otherwise
Cex_C24_EveryColumnDecided ==
    ReadStarted =>
        \A c \in RmCols :
            IF ColCurrent(c)
            THEN ColIssued(c) /\ rm.rm_col[c].rc_skipped = 0 /\ rm.rm_col[c].rc_error = "OK"
            ELSE /\ ~ColIssued(c) /\ rm.rm_col[c].rc_skipped = 1
                 /\ rm.rm_col[c].rc_error = IF ~ColDev(c).readable THEN "ENXIO" ELSE "ESTALE"

\* C24: a column whose child is unreadable is skipped with ENXIO and marked
\* tried, one whose child is readable but stale is skipped with ESTALE, and
\* neither has a child I/O; a column whose child is readable and current
\* keeps its flags clear and has one child I/O, unless it is a parity
\* column of a normal read with no data column missing, which is left
\* untouched.
Thm_C24_ColumnOutcome ==
    ReadStarted =>
        /\ \A c \in RmCols :
            LET rc == rm.rm_col[c]
            IN  IF ~ColDev(c).readable
                THEN /\ ~ColIssued(c)
                     /\ rc.rc_skipped = 1 /\ rc.rc_tried = 1 /\ rc.rc_error = "ENXIO"
                ELSE IF ColDev(c).dtl_missing
                THEN /\ ~ColIssued(c)
                     /\ rc.rc_skipped = 1 /\ rc.rc_tried = 0 /\ rc.rc_error = "ESTALE"
                ELSE /\ rc.rc_skipped = 0 /\ rc.rc_tried = 0 /\ rc.rc_error = "OK"
                     /\ Cardinality({k \in DOMAIN cios : cios[k].col = c}) =
                            IF NormalRead /\ ~ColIsData(c) /\ rm.rm_missingdata = 0
                            THEN 0 ELSE 1
        /\ rm.rm_missingdata = Cardinality({c \in RmCols : ColIsData(c) /\ ~ColCurrent(c)})
        /\ rm.rm_missingparity = Cardinality({c \in RmCols : ~ColIsData(c) /\ ~ColCurrent(c)})

\* A read with a column on an unreadable, stale child, a column on a stale
\* child and a parity column left untouched
Wit_C24_ColumnOutcome ==
    /\ ReadStarted
    /\ \E c \in RmCols : ~ColDev(c).readable /\ ColDev(c).dtl_missing
                            /\ rm.rm_col[c].rc_error = "ENXIO"
    /\ \E c \in RmCols : rm.rm_col[c].rc_error = "ESTALE"

\* A normal read of a healthy stripe leaves its parity column without a
\* child I/O and without an error
Wit_C24_ParityUntouched ==
    /\ ReadStarted /\ NormalRead
    /\ \E c \in RmCols : ~ColIsData(c) /\ ColCurrent(c) /\ ~ColIssued(c)
                            /\ rm.rm_col[c].rc_skipped = 0
\* The slices of rm_abd_skip in the ABD of column c
SkipSlices(c) ==
    {rm.rm_col[c].rc_abd[k] : k \in {j \in DOMAIN rm.rm_col[c].rc_abd :
                                         rm.rm_col[c].rc_abd[j].src = "skip"}}
IoNskip == roundup(IoTot, vdc.vdc_groupwidth) - IoTot

ColumnLocation(g, row, j) ==
    LET l2p == vdev_draid_logical_to_physical(vd, vdc, BlockOffset(vd, vdc, g, row))
        p == vdev_draid_get_perm(vdc, l2p.perm)
        wrap == IF l2p.start + vdc.vdc_groupwidth > vdc.vdc_ndisks
                THEN vdc.vdc_ndisks - l2p.start ELSE vdc.vdc_groupwidth
    IN  [cvd |-> vdev_draid_permute_id(vdc, p.base, p.iter, (l2p.start + j) % vdc.vdc_ndisks),
         offset |-> col_offset(l2p.physical_offset, wrap, j)]
Triples == (0..MaxGroup) \X RowInputs(vd) \X (0..(vdc.vdc_groupwidth - 1))
IoRow ==
    ((zio.io_offset \div (2 ^ vd.vdev_ashift))
        % ((VDEV_DRAID_ROWSIZE \div (2 ^ vd.vdev_ashift)) * vdc.vdc_groupwidth))
            \div vdc.vdc_groupwidth
WriteStarted == zio.io_type = "WRITE" /\ zio.stage = "issued"

\* C26: different (group, sector row, column) triples lie at different
\* (child, child offset) places; the child writes of a stripe go to
\* different children, column i to the place of its triple, and cover no
\* sector of a triple outside the rows of the stripe.
Thm_C26_MappingInjective ==
    WriteStarted =>
        /\ Cardinality({ColumnLocation(t[1], t[2], t[3]) : t \in Triples}) =
               Cardinality(Triples)
        /\ \A k1, k2 \in DOMAIN cios : k1 # k2 => cios[k1].cvd # cios[k2].cvd
        /\ \A k \in DOMAIN cios :
               /\ cios[k].cvd = ColumnLocation(IoGroup, IoRow, cios[k].col).cvd
               /\ cios[k].offset = ColumnLocation(IoGroup, IoRow, cios[k].col).offset
        /\ \A t \in Triples :
               (t[1] # IoGroup \/ t[2] < IoRow
                    \/ t[2] >= IoRow + (rm.rm_col[0].rc_size \div (2 ^ vd.vdev_ashift))) =>
                   \A k \in DOMAIN cios :
                       ~ /\ cios[k].cvd = ColumnLocation(t[1], t[2], t[3]).cvd
                         /\ cios[k].offset <= ColumnLocation(t[1], t[2], t[3]).offset
                         /\ ColumnLocation(t[1], t[2], t[3]).offset
                                < cios[k].offset + cios[k].size

\* A write to a group of the second permutation whose columns wrap to the
\* next row of the children
Wit_C26_MappingInjective ==
    /\ WriteStarted /\ IoPerm >= 1
    /\ \E i \in 0..(vdc.vdc_groupwidth - 1) : rm.rm_col[i].rc_offset # rm.rm_col[0].rc_offset
\* C27: for every column of the row map of an I/O, wrapped or not, the
\* child offset and the last byte of the column divided by vdc_devslicesz
\* give the permutation index group / ngroups, and so does the un-wrapped
\* offset vdev_draid_group_degraded passes on; the permutation row and
\* rotation vdev_draid_spare_get_child looks up for that offset are those
\* of the top-level mapping.
Thm_C27_OffsetGivesPermutation ==
    zio.stage # "none" =>
        LET l2p == vdev_draid_logical_to_physical(vd, vdc, zio.io_offset)
        IN  /\ l2p.perm = IoGroup \div vdc.vdc_ngroups
            /\ l2p.physical_offset \div vdc.vdc_devslicesz = l2p.perm
            /\ \A i \in 0..(vdc.vdc_groupwidth - 1) :
                   /\ rm.rm_col[i].rc_offset \div vdc.vdc_devslicesz = l2p.perm
                   /\ rm.rm_col[i].rc_size > 0 =>
                          (rm.rm_col[i].rc_offset + rm.rm_col[i].rc_size - 1)
                              \div vdc.vdc_devslicesz = l2p.perm
                   /\ vdev_draid_get_perm(vdc, rm.rm_col[i].rc_offset \div vdc.vdc_devslicesz)
                          = vdev_draid_get_perm(vdc, l2p.perm)

\* An I/O on the last sector row of a group of the second permutation with
\* a column wrapped to the next row of the children
Wit_C27_OffsetGivesPermutation ==
    /\ zio.stage # "none" /\ IoPerm = 1
    /\ IoRow = (VDEV_DRAID_ROWSIZE \div (2 ^ vd.vdev_ashift)) - 1
    /\ \E i \in 0..(vdc.vdc_groupwidth - 1) :
           rm.rm_col[i].rc_offset = rm.rm_col[0].rc_offset + VDEV_DRAID_ROWSIZE
\* The child at position pos of the permutation that covers physical_offset
PermChild(physical_offset, pos) ==
    vdev_draid_permute_id(vdc,
        vdev_draid_get_perm(vdc, physical_offset \div vdc.vdc_devslicesz).base,
        vdev_draid_get_perm(vdc, physical_offset \div vdc.vdc_devslicesz).iter, pos)
SpareChild(physical_offset, id) == PermChild(physical_offset, (vdc.vdc_children - 1) - id)
GroupChildren(physical_offset) ==
    {PermChild(physical_offset, pos) : pos \in 0..(vdc.vdc_ndisks - 1)}
GetChildReturned ==
    /\ sp.res.op = "get_child" /\ sp.res.kind = "child"
    /\ vdc # NoConfig /\ sp.vds[sp.res.s].vds_spare_id < vdc.vdc_nspares

\* The children at the spare positions differ from the children at the group
\* positions and from each other
SparePositionsDistinct(physical_offset) ==
    \A id \in 0..(vdc.vdc_nspares - 1) :
        /\ SpareChild(physical_offset, id) \notin GroupChildren(physical_offset)
        /\ \A other \in 0..(vdc.vdc_nspares - 1) :
               other # id => SpareChild(physical_offset, other) # SpareChild(physical_offset, id)

Cex_C29_AsizeAsserts ==
    (/\ geo.op = "asize"
     /\ geo.arg # U64Zero
     /\ U64Le(geo.arg, U64FromNat(SPA_MAXBLOCKSIZE))) =>
        /\ geo.res # U64Zero
        /\ U64ModSmall(geo.res, vdc.vdc_groupwidth) = 0
        /\ U64Fits(geo.res) /\ U64ToNat(geo.res) < vdc.vdc_groupsz
\* The end of the last whole row of the smallest child that is not a
\* distributed spare
UsableEnd ==
    LET sizes == {kids[c].vdev_asize : c \in {d \in DOMAIN kids : kids[d].ops # "draid_spare"}}
        least == CHOOSE a \in sizes : \A b \in sizes : a <= b
    IN  (least \div VDEV_DRAID_ROWSIZE) * VDEV_DRAID_ROWSIZE
IoInsideVdev ==
    /\ zio.stage # "none"
    /\ opn.err = "OK"
    /\ zio.io_offset + U64ToNat(vdev_draid_asize(vd, vdc, U64FromNat(zio.io_size))) <= opn.asize

\* C30: for an I/O whose allocated range lies inside the asize that
\* vdev_draid_open reported, every column of the row map and every child
\* I/O ends at or before the end of the last whole row of the smallest
\* child.
Thm_C30_ChildIoInsideChild ==
    IoInsideVdev =>
        /\ \A i \in 0..(vdc.vdc_groupwidth - 1) :
               rm.rm_col[i].rc_offset + rm.rm_col[i].rc_size <= UsableEnd
        /\ \A k \in DOMAIN cios : cios[k].offset + cios[k].size <= UsableEnd

\* An I/O in the last group of a vdev whose child 0 is a row shorter, with a
\* child I/O that ends on the last byte of the usable rows
Wit_C30_ChildIoInsideChild ==
    /\ IoInsideVdev
    /\ kids[0].vdev_asize < kids[1].vdev_asize
    /\ zio.io_offset + vdc.vdc_groupsz > opn.asize
    /\ \E k \in DOMAIN cios : cios[k].offset + cios[k].size = UsableEnd
====
